---- MODULE Spec2Model ----
(***************************************************************************)
(* Test validation runner (scripts/test_validation_runner.py) and quality   *)
(* gate enforcer (scripts/quality_gate_enforcer.py) of CourseScout.         *)
(*                                                                         *)
(* Units: percentages are held in tenths of a percent (85.5% is 855), so   *)
(* that every number of the source is an integer; minutes, seconds and     *)
(* counts are held as they are.  Scores are exact fractions <<num, den>>.  *)
(***************************************************************************)
EXTENDS Integers, Sequences, FiniteSets, TLC

VARIABLES
    \* ---- test_validation_runner.py ----
    parallel_execution,   \* main: not args.sequential
    pc,                   \* position of run_comprehensive_validation / main
    task_pc,              \* position of each execute_test_plan coroutine
    executor,             \* what the build / test subprocess of each plan did
    gathered,             \* value each execute_test_plan coroutine returned
    test_results,         \* TestValidationRunner.test_results
    gate_file,            \* TestResults/quality_gates_report.json
    quality_gate_results, \* TestValidationRunner.quality_gate_results
    report,               \* the ValidationReport
    exit_code,            \* sys.exit code of the runner
    out_of_order,         \* history: a plan returned before an earlier plan did
    main_exception,       \* main's `except Exception` handler ran
    \* ---- quality_gate_enforcer.py ----
    config,               \* QualityGateEnforcer.config
    quality_thresholds,   \* QualityGateEnforcer.quality_thresholds
    validation_results,   \* QualityGateEnforcer.validation_results
    e_pc,                 \* position of the enforcer's main
    e_args,               \* parsed command line of the enforcer
    e_success,            \* main's local `success`
    quality_report,       \* generate_quality_report()
    e_exit,               \* sys.exit code of the enforcer
    \* ---- generate_coverage_report.py, validate_test_quality.py ----
    t_pc,                 \* position of the script that runs
    parsed,               \* what parse_xcode_coverage returned
    tq_validation_results, \* TestQualityValidator.validation_results
    tq_success,           \* run_validation's local `success`
    tq_report,            \* TestQualityValidator.generate_quality_report()
    quality_gates,        \* TestQualityValidator.quality_gates
    tq_exit               \* sys.exit code of validate_test_quality.py

rvars == <<parallel_execution, pc, task_pc, executor, gathered, test_results,
           gate_file, quality_gate_results, report, exit_code, out_of_order,
           main_exception>>
evars == <<config, quality_thresholds, validation_results, e_pc, e_args, e_success,
           quality_report, e_exit>>
tvars == <<t_pc, parsed, tq_validation_results, tq_success, tq_report, quality_gates,
           tq_exit>>
vars == <<rvars, evars, tvars>>

None == "None"

(***************************************************************************)
(* Exact fractions                                                         *)
(***************************************************************************)
RatLeq(a, b) == a[1] * b[2] <= b[1] * a[2]
RatEq(a, b) == a[1] * b[2] = b[1] * a[2]

RECURSIVE Gcd(_, _)
Gcd(a, b) == IF b = 0 THEN a ELSE Gcd(b, a % b)

\* a / b as a float holds one value whatever a and b were scaled by
Div(a, b) == LET g == Gcd(a, b) IN IF g = 0 THEN <<0, 1>> ELSE <<a \div g, b \div g>>

\* a dict without keys
EmptyDict == [k \in {} |-> None]

Get(d, k, default) == IF k \in DOMAIN d THEN d[k] ELSE default

RECURSIVE SeqSum(_)
SeqSum(s) == IF s = <<>> THEN 0 ELSE Head(s) + SeqSum(Tail(s))

\* float arithmetic on fractions with positive denominators
RatAdd(a, b) == Div(a[1] * b[2] + b[1] * a[2], a[2] * b[2])
RatMin(a, b) == IF RatLeq(a, b) THEN a ELSE b
RatMax(a, b) == IF RatLeq(a, b) THEN b ELSE a

RECURSIVE RatSum(_)
RatSum(s) == IF s = <<>> THEN <<0, 1>> ELSE RatAdd(Head(s), RatSum(Tail(s)))

RECURSIVE Flatten(_)
Flatten(ss) == IF ss = <<>> THEN <<>> ELSE Head(ss) \o Flatten(Tail(ss))

(***************************************************************************)
(* quality_gate_enforcer.py: thresholds and results                        *)
(***************************************************************************)
QualityThreshold(name, value, critical) ==
    [name |-> name, value |-> value, critical |-> critical]

QualityResult(check_name, passed, actual_value, threshold_value, severity) ==
    [check_name |-> check_name, passed |-> passed, actual_value |-> actual_value,
     threshold_value |-> threshold_value, severity |-> severity]

Severities == {"INFO", "WARNING", "ERROR", "CRITICAL"}

\* the registry with the memory-leak threshold made non-critical
ThresholdsLeaksNotCritical ==
    [overall_test_coverage |-> QualityThreshold("Overall Test Coverage", 900, TRUE),
     critical_path_coverage |-> QualityThreshold("Critical Path Coverage", 950, TRUE),
     service_layer_coverage |-> QualityThreshold("Service Layer Coverage", 950, TRUE),
     ui_test_coverage |-> QualityThreshold("UI Test Coverage", 800, FALSE),
     max_test_execution_time |-> QualityThreshold("Test Execution Time", 45, TRUE),
     max_individual_test_time |-> QualityThreshold("Individual Test Time", 30, FALSE),
     performance_regression_threshold |-> QualityThreshold("Performance Regression", 100, TRUE),
     memory_leak_threshold |-> QualityThreshold("Memory Leaks", 0, FALSE),
     critical_vulnerabilities |-> QualityThreshold("Critical Vulnerabilities", 0, TRUE),
     high_vulnerabilities |-> QualityThreshold("High Vulnerabilities", 0, TRUE),
     medium_vulnerabilities |-> QualityThreshold("Medium Vulnerabilities", 2, FALSE),
     security_test_coverage |-> QualityThreshold("Security Test Coverage", 950, TRUE),
     test_flaky_rate |-> QualityThreshold("Test Flaky Rate", 20, TRUE),
     test_failure_rate |-> QualityThreshold("Test Failure Rate", 0, TRUE),
     code_quality_score |-> QualityThreshold("Code Quality Score", 950, TRUE),
     api_response_time |-> QualityThreshold("API Response Time", 200, FALSE),
     database_query_time |-> QualityThreshold("Database Query Time", 100, FALSE),
     integration_test_success |-> QualityThreshold("Integration Test Success", 1000, TRUE)]

_initialize_thresholds ==
    [overall_test_coverage |-> QualityThreshold("Overall Test Coverage", 900, TRUE),
     critical_path_coverage |-> QualityThreshold("Critical Path Coverage", 950, TRUE),
     service_layer_coverage |-> QualityThreshold("Service Layer Coverage", 950, TRUE),
     ui_test_coverage |-> QualityThreshold("UI Test Coverage", 800, FALSE),
     max_test_execution_time |-> QualityThreshold("Test Execution Time", 45, TRUE),
     max_individual_test_time |-> QualityThreshold("Individual Test Time", 30, FALSE),
     performance_regression_threshold |-> QualityThreshold("Performance Regression", 100, TRUE),
     memory_leak_threshold |-> QualityThreshold("Memory Leaks", 0, TRUE),
     critical_vulnerabilities |-> QualityThreshold("Critical Vulnerabilities", 0, TRUE),
     high_vulnerabilities |-> QualityThreshold("High Vulnerabilities", 0, TRUE),
     medium_vulnerabilities |-> QualityThreshold("Medium Vulnerabilities", 2, FALSE),
     security_test_coverage |-> QualityThreshold("Security Test Coverage", 950, TRUE),
     test_flaky_rate |-> QualityThreshold("Test Flaky Rate", 20, TRUE),
     test_failure_rate |-> QualityThreshold("Test Failure Rate", 0, TRUE),
     code_quality_score |-> QualityThreshold("Code Quality Score", 950, TRUE),
     api_response_time |-> QualityThreshold("API Response Time", 200, FALSE),
     database_query_time |-> QualityThreshold("Database Query Time", 100, FALSE),
     integration_test_success |-> QualityThreshold("Integration Test Success", 1000, TRUE)]

\* main, lines 693-698: --strict overwrites four values in place
StrictThresholds(th) ==
    [th EXCEPT !.overall_test_coverage.value = 950,
               !.critical_path_coverage.value = 980,
               !.max_test_execution_time.value = 30,
               !.test_flaky_rate.value = 10]

(***************************************************************************)
(* validate_test_coverage                                                  *)
(* coverage_data: a record with the optional keys lineCoverage (tenths of  *)
(* a percent) and targets (a sequence of records with the optional key     *)
(* files, each file a record with the optional keys name, lineCoverage).   *)
(***************************************************************************)
critical_paths ==
    {"PaymentService", "BookingService", "SecurityService",
     "AuthenticationService", "APIGatewayService"}

\* substring tests on the file names the model draws from
FileNames ==
    {"", "PaymentService.swift", "GolfCourseService.swift",
     "MockBookingService.swift", "ContentView.swift"}
Contains(file_name, part) ==
    CASE part = "PaymentService" -> file_name = "PaymentService.swift"
      [] part = "BookingService" -> file_name = "MockBookingService.swift"
      [] part = "Service.swift" ->
             file_name \in {"PaymentService.swift", "GolfCourseService.swift",
                            "MockBookingService.swift"}
      [] part = "Mock" -> file_name = "MockBookingService.swift"
      [] OTHER -> FALSE

AllFiles(coverage_data) ==
    Flatten([i \in 1..Len(Get(coverage_data, "targets", <<>>)) |->
                Get(Get(coverage_data, "targets", <<>>)[i], "files", <<>>)])

IsCriticalPathFile(file_data) ==
    \E path \in critical_paths : Contains(Get(file_data, "name", ""), path)

IsServiceFile(file_data) ==
    /\ Contains(Get(file_data, "name", ""), "Service.swift")
    /\ ~Contains(Get(file_data, "name", ""), "Mock")

\* the sum and count the loops of lines 283-289 and 308-314 accumulate
CoverageOf(selected) ==
    [sum |-> SeqSum([i \in 1..Len(selected) |-> Get(selected[i], "lineCoverage", 0)]),
     found |-> Len(selected)]

\* the severity of a failed coverage check written as ERROR
CoverageSeverityError(threshold, below) ==
    IF threshold.critical /\ below THEN "ERROR" ELSE "INFO"

CoverageSeverity(threshold, below) ==
    IF threshold.critical /\ below THEN "CRITICAL" ELSE "INFO"

\* an averaged coverage check that a value equal to the threshold fails
AverageCoverageCheckStrict(threshold, acc) ==
    IF acc.found > 0
    THEN <<QualityResult(threshold.name,
                         acc.sum > threshold.value * acc.found,
                         Div(acc.sum, acc.found),
                         threshold.value,
                         CoverageSeverity(threshold, acc.sum <= threshold.value * acc.found))>>
    ELSE <<>>

\* one averaged coverage check (lines 291-302 and 316-327)
AverageCoverageCheck(threshold, acc) ==
    IF acc.found > 0
    THEN <<QualityResult(threshold.name,
                         acc.sum >= threshold.value * acc.found,
                         Div(acc.sum, acc.found),
                         threshold.value,
                         CoverageSeverity(threshold, acc.sum < threshold.value * acc.found))>>
    ELSE <<>>

validate_test_coverage(th, coverage_data) ==
    LET overall_coverage == Get(coverage_data, "lineCoverage", 0)
        threshold == th.overall_test_coverage
        files == AllFiles(coverage_data)
    IN  <<QualityResult(threshold.name,
                        overall_coverage >= threshold.value,
                        Div(overall_coverage, 1),
                        threshold.value,
                        CoverageSeverity(threshold, overall_coverage < threshold.value))>>
        \o AverageCoverageCheck(th.critical_path_coverage,
                                CoverageOf(SelectSeq(files, IsCriticalPathFile)))
        \o AverageCoverageCheck(th.service_layer_coverage,
                                CoverageOf(SelectSeq(files, IsServiceFile)))

(***************************************************************************)
(* validate_performance_metrics, validate_security_compliance              *)
(***************************************************************************)
SlowTestCount(slow_tests, limit) ==
    Len(SelectSeq(slow_tests, LAMBDA t : Get(t, "duration_seconds", 0) > limit))

\* validate_performance_metrics as it would be if a result were emitted only
\* for the fields the mapping holds
PerformanceOnlyPresent(th, performance_data) ==
    LET execution_time == Get(performance_data, "execution_time_minutes", 0)
        threshold == th.max_test_execution_time
        max_individual_time == th.max_individual_test_time
        slow_test_count ==
            SlowTestCount(Get(performance_data, "slow_tests", <<>>), max_individual_time.value)
        memory_leaks == Get(performance_data, "memory_leaks", 0)
        leak_threshold == th.memory_leak_threshold
    IN  <<QualityResult(threshold.name,
                        execution_time <= threshold.value,
                        Div(execution_time, 1),
                        threshold.value,
                        IF threshold.critical /\ execution_time > threshold.value
                        THEN "CRITICAL" ELSE "INFO"),
          QualityResult(max_individual_time.name,
                        slow_test_count = 0,
                        Div(slow_test_count, 1),
                        0,
                        IF slow_test_count > 0 THEN "WARNING" ELSE "INFO")>>
        \o (IF "memory_leaks" \in DOMAIN performance_data
            THEN <<QualityResult(leak_threshold.name,
                                 memory_leaks <= leak_threshold.value,
                                 Div(memory_leaks, 1),
                                 leak_threshold.value,
                                 IF memory_leaks > leak_threshold.value
                                 THEN "CRITICAL" ELSE "INFO")>>
            ELSE <<>>)

validate_performance_metrics(th, performance_data) ==
    LET execution_time == Get(performance_data, "execution_time_minutes", 0)
        threshold == th.max_test_execution_time
        max_individual_time == th.max_individual_test_time
        slow_test_count ==
            SlowTestCount(Get(performance_data, "slow_tests", <<>>), max_individual_time.value)
        memory_leaks == Get(performance_data, "memory_leaks", 0)
        leak_threshold == th.memory_leak_threshold
    IN  <<QualityResult(threshold.name,
                        execution_time <= threshold.value,
                        Div(execution_time, 1),
                        threshold.value,
                        IF threshold.critical /\ execution_time > threshold.value
                        THEN "CRITICAL" ELSE "INFO"),
          QualityResult(max_individual_time.name,
                        slow_test_count = 0,
                        Div(slow_test_count, 1),
                        0,
                        IF slow_test_count > 0 THEN "WARNING" ELSE "INFO"),
          QualityResult(leak_threshold.name,
                        memory_leaks <= leak_threshold.value,
                        Div(memory_leaks, 1),
                        leak_threshold.value,
                        IF memory_leaks > leak_threshold.value THEN "CRITICAL" ELSE "INFO")>>

validate_security_compliance(th, security_data) ==
    LET vulnerabilities == Get(security_data, "vulnerabilities", EmptyDict)
        critical_vuln == Get(vulnerabilities, "critical", 0)
        high_vuln == Get(vulnerabilities, "high", 0)
        medium_vuln == Get(vulnerabilities, "medium", 0)
        security_coverage == Get(security_data, "test_coverage", 0)
        threshold == th.security_test_coverage
    IN  <<QualityResult(th.critical_vulnerabilities.name,
                        critical_vuln <= th.critical_vulnerabilities.value,
                        Div(critical_vuln, 1),
                        th.critical_vulnerabilities.value,
                        IF critical_vuln > th.critical_vulnerabilities.value
                        THEN "CRITICAL" ELSE "INFO"),
          QualityResult(th.high_vulnerabilities.name,
                        high_vuln <= th.high_vulnerabilities.value,
                        Div(high_vuln, 1),
                        th.high_vulnerabilities.value,
                        IF high_vuln > th.high_vulnerabilities.value
                        THEN "CRITICAL" ELSE "INFO"),
          QualityResult(th.medium_vulnerabilities.name,
                        medium_vuln <= th.medium_vulnerabilities.value,
                        Div(medium_vuln, 1),
                        th.medium_vulnerabilities.value,
                        IF medium_vuln > th.medium_vulnerabilities.value
                        THEN "WARNING" ELSE "INFO"),
          QualityResult(threshold.name,
                        security_coverage >= threshold.value,
                        Div(security_coverage, 1),
                        threshold.value,
                        IF threshold.critical /\ security_coverage < threshold.value
                        THEN "CRITICAL" ELSE "INFO")>>

\* the placeholder scan of lines 449-459
run_security_scan ==
    [vulnerabilities |-> [critical |-> 0, high |-> 0, medium |-> 1, low |-> 3],
     test_coverage |-> 965]

(***************************************************************************)
(* calculate_overall_quality_score: the weights 3.0, 1.0 and 0.5 are held  *)
(* in halves; the quotient is the same.                                    *)
(***************************************************************************)
critical_weight == 6
warning_weight == 2
info_weight == 1

\* WARNING results weighted like any other non-critical result
WeightOfTwoLevels(result) ==
    IF result.severity = "CRITICAL" THEN critical_weight ELSE info_weight

\* a CRITICAL result weighted three times an INFO result
WeightOfCriticalTriple(result) ==
    IF result.severity = "CRITICAL" THEN 3 * info_weight
    ELSE IF result.severity = "WARNING" THEN warning_weight
    ELSE info_weight

WeightOf(result) ==
    IF result.severity = "CRITICAL" THEN critical_weight
    ELSE IF result.severity = "WARNING" THEN warning_weight
    ELSE info_weight

RECURSIVE ScoreLoopCounting(_, _, _)
\* the loop dividing by the number of results instead of their weight
ScoreLoopCounting(results, total_score, total_weight) ==
    IF results = <<>> THEN <<total_score, total_weight>>
    ELSE LET weight == WeightOf(Head(results))
             score == IF Head(results).passed THEN 100 ELSE 0
         IN  ScoreLoopCounting(Tail(results), total_score + score * weight, total_weight + 1)

RECURSIVE ScoreLoop(_, _, _)
\* the loop of lines 473-478: <<total_score, total_weight>>
ScoreLoop(results, total_score, total_weight) ==
    IF results = <<>> THEN <<total_score, total_weight>>
    ELSE LET weight == WeightOf(Head(results))
             score == IF Head(results).passed THEN 100 ELSE 0
         IN  ScoreLoop(Tail(results), total_score + score * weight, total_weight + weight)

calculate_overall_quality_score(results) ==
    IF results = <<>> THEN <<0, 1>>
    ELSE LET totals == ScoreLoop(results, 0, 0)
         IN  IF totals[2] > 0 THEN Div(totals[1], totals[2]) ELSE <<0, 1>>

(***************************************************************************)
(* generate_quality_report                                                 *)
(***************************************************************************)
\* every failed result counted as blocking
IsAnyFailure(r) == ~r.passed

IsCriticalFailure(r) == ~r.passed /\ r.severity = "CRITICAL"
IsWarning(r) == ~r.passed /\ r.severity = "WARNING"
IsPassed(r) == r.passed

CheckNames(results) == [i \in 1..Len(results) |-> results[i].check_name]

Advice(text, check, count) == [text |-> text, check |-> check, count |-> count]

\* `word in check_name.lower()` on the names of the thresholds
NameContains(check_name, word) ==
    CASE word = "coverage" ->
             check_name \in {"Overall Test Coverage", "Critical Path Coverage",
                             "Service Layer Coverage", "UI Test Coverage",
                             "Security Test Coverage"}
      [] word = "vulnerabilit" ->
             check_name \in {"Critical Vulnerabilities", "High Vulnerabilities",
                             "Medium Vulnerabilities"}
      [] word = "performance" -> check_name = "Performance Regression"
      [] OTHER -> FALSE

\* lines 547-553: the entry for one critical failure, if any
FailureAdvice(failure) ==
    IF NameContains(failure.check_name, "coverage")
    THEN <<Advice("Increase test coverage for", failure.check_name, 1)>>
    ELSE IF NameContains(failure.check_name, "vulnerabilit")
    THEN <<Advice("Resolve security vulnerabilities", failure.check_name, 1)>>
    ELSE IF NameContains(failure.check_name, "performance")
    THEN <<Advice("Optimize performance", failure.check_name, 1)>>
    ELSE <<>>

ReadyForDeployment == Advice("All critical quality gates passed - ready for deployment", "", 0)

\* lines 537-560
_generate_recommendations(results) ==
    LET critical_failures == SelectSeq(results, IsCriticalFailure)
        warnings == SelectSeq(results, IsWarning)
    IN  (IF critical_failures # <<>>
         THEN <<Advice("Address all critical quality gate failures before deployment", "",
                       Len(critical_failures))>>
              \o Flatten([i \in 1..Len(critical_failures) |->
                             FailureAdvice(critical_failures[i])])
         ELSE <<ReadyForDeployment>>)
        \o (IF warnings # <<>>
            THEN <<Advice("Address warnings to improve quality score", "", Len(warnings))>>
            ELSE <<>>)

\* lines 562-580
_generate_next_steps(results) ==
    IF SelectSeq(results, IsCriticalFailure) # <<>>
    THEN <<"1. Fix all critical quality gate failures",
           "2. Re-run quality gate validation",
           "3. Generate updated quality report",
           "4. Proceed with deployment only after all gates pass">>
    ELSE <<"1. All quality gates passed",
           "2. Ready for deployment to TestFlight",
           "3. Monitor quality metrics in production",
           "4. Schedule next quality review">>

generate_quality_report(results) ==
    LET critical_failed == SelectSeq(results, IsCriticalFailure)
        warnings == SelectSeq(results, IsWarning)
        passed == SelectSeq(results, IsPassed)
        quality_score == calculate_overall_quality_score(results)
        overall_passed == Len(critical_failed) = 0
    IN  [execution_summary |->
             [overall_passed |-> overall_passed, quality_score |-> quality_score],
         quality_gates |->
             [total_checks |-> Len(results), passed |-> Len(passed),
              critical_failures |-> Len(critical_failed), warnings |-> Len(warnings)],
         detailed_results |->
             [critical_failures |-> CheckNames(critical_failed),
              warnings |-> CheckNames(warnings),
              passed |-> CheckNames(passed)],
         recommendations |-> _generate_recommendations(results),
         next_steps |-> _generate_next_steps(results)]

\* main, line 721
FinalSuccess(success, results) ==
    success /\ Len(SelectSeq(results, IsCriticalFailure)) = 0

(***************************************************************************)
(* test_validation_runner.py                                               *)
(***************************************************************************)
test_plans ==
    <<"UnitTestPlan", "IntegrationTestPlan", "PerformanceTestPlan", "SecurityTestPlan">>

Plans == 1..Len(test_plans)

\* memory_usage_mb and cpu_usage_percentage are held in tenths, quality_score
\* as a fraction
TestValidationResult(test_plan, success, execution_time_seconds, coverage_percentage, test_count, passed_count, failed_count, skipped_count, memory_usage_mb, cpu_usage_percentage, errors, quality_score) ==
    [test_plan |-> test_plan, success |-> success,
     execution_time_seconds |-> execution_time_seconds,
     coverage_percentage |-> coverage_percentage, test_count |-> test_count,
     passed_count |-> passed_count, failed_count |-> failed_count,
     skipped_count |-> skipped_count, memory_usage_mb |-> memory_usage_mb,
     cpu_usage_percentage |-> cpu_usage_percentage, errors |-> errors,
     quality_score |-> quality_score]

\* an error message: its fixed text and what is formatted into it
Message(text, detail) == <<text, detail>>

\* xcodebuild's stdout, held as the number of occurrences of the four
\* substrings extract_test_counts_from_result counts in it
Stdout(cases, passed, failed, skipped) ==
    [cases |-> cases, passed |-> passed, failed |-> failed, skipped |-> skipped]

EmptyStdout == Stdout(0, 0, 0, 0)

\* the outputs the model draws from: "" and three "Test Case '-[S t]' ..."
\* lines, one passed, one failed, one skipped
StdoutSamples == {EmptyStdout, Stdout(3, 1, 1, 1)}

\* what the build subprocess of build_for_testing can do
BuildOutcomes == {"ok", "failed", "exception"}

\* what the test subprocess of run_xcode_test_plan can do
TestOutcomes ==
    [kind : {"exit"}, returncode : {0, 1}, stdout : StdoutSamples]
    \cup [kind : {"timeout", "exception"}, returncode : {1}, stdout : {EmptyStdout}]

NotRun == [kind |-> "none", returncode |-> 0, stdout |-> EmptyStdout]

\* time.time() - start_time of line 203 for the sampled runs: 1800 s when
\* the wait_for timed out, two minutes for a run that exited, none when the
\* subprocess could not be created
ElapsedSeconds(outcome) ==
    CASE outcome.kind = "timeout" -> 1800
      [] outcome.kind = "exit" -> 120
      [] OTHER -> 0

build_for_testing(outcome) == outcome = "ok"

\* the dict run_xcode_test_plan returns; errors is <<>> where the dict
\* has no 'errors' key, which is what its one reader (line 217) makes of it
run_xcode_test_plan(test_plan, outcome) ==
    CASE outcome.kind = "exit" ->
             [success |-> outcome.returncode = 0, stdout |-> outcome.stdout,
              return_code |-> outcome.returncode, errors |-> <<>>]
      [] outcome.kind = "timeout" ->
             [success |-> FALSE, stdout |-> EmptyStdout, return_code |-> 1,
              errors |-> <<Message("Test execution timeout", "")>>]
      [] OTHER ->
             [success |-> FALSE, stdout |-> EmptyStdout, return_code |-> 1,
              errors |-> <<Message("exception", test_plan)>>]

extract_coverage_from_result(test_result) ==
    IF test_result.success THEN 855 ELSE 0

extract_test_counts_from_result(test_result) ==
    LET passed == test_result.stdout.cases + test_result.stdout.passed
        failed == test_result.stdout.failed
        skipped == test_result.stdout.skipped
        total == passed + failed + skipped
    IN  [total |-> IF total > 0 THEN total ELSE 1,
         passed |-> passed, failed |-> failed, skipped |-> skipped]

\* the placeholder of lines 335-341
extract_performance_metrics(test_result) == [memory_mb |-> 1255, cpu_percent |-> 352]

\* a score that counts the coverage points without the cap of 30
ScoreWithoutCoverageCap(success, coverage, test_counts, performance) ==
    IF ~success THEN <<0, 1>>
    ELSE LET rate == IF test_counts.total > 0
                     THEN <<15 * test_counts.passed, test_counts.total>>
                     ELSE <<0, 1>>
             memory_score == RatMax(<<0, 1>>, <<5000 - performance.memory_mb, 1000>>)
         IN  RatAdd(RatAdd(RatAdd(<<50, 1>>, <<coverage, 30>>), rate),
                    RatMin(<<5, 1>>, memory_score))

\* lines 343-369.  coverage is in tenths of a percent, so (coverage / 90) * 30
\* is coverage / 30; memory_mb is in tenths, so memory_mb / 100 is
\* memory_mb / 1000
calculate_test_quality_score(success, coverage, test_counts, performance) ==
    IF ~success THEN <<0, 1>>
    ELSE LET coverage_score == RatMin(<<30, 1>>, <<coverage, 30>>)
             rate == IF test_counts.total > 0
                     THEN <<15 * test_counts.passed, test_counts.total>>
                     ELSE <<0, 1>>
             memory_score == RatMax(<<0, 1>>, <<5000 - performance.memory_mb, 1000>>)
             score == RatAdd(RatAdd(RatAdd(<<50, 1>>, coverage_score), rate),
                             RatMin(<<5, 1>>, memory_score))
         IN  RatMin(<<100, 1>>, score)

create_failed_result(test_plan, errors) ==
    TestValidationResult(test_plan, FALSE, 0, 0, 0, 0, 1, 0, 0, 0, errors, <<0, 1>>)

\* execute_test_plan after a failed build (lines 184-186)
BuildFailedResult(test_plan) ==
    create_failed_result(test_plan, <<Message("Build failed for", test_plan)>>)

\* execute_test_plan after the test run returned (lines 189-220).  Both
\* build_for_testing and run_xcode_test_plan catch Exception themselves, so
\* the handler of lines 222-224 has nothing left to catch.
\* lines 198-220: the score and the result made of the extracted metrics
ScoredResult(test_plan, success, execution_time, coverage, test_counts, performance_metrics, errors) ==
    LET quality_score == calculate_test_quality_score(success, coverage, test_counts,
                                                      performance_metrics)
    IN  TestValidationResult(test_plan, success, execution_time, coverage,
                             test_counts.total, test_counts.passed,
                             test_counts.failed, test_counts.skipped,
                             performance_metrics.memory_mb,
                             performance_metrics.cpu_percent,
                             errors, quality_score)

CompletedResult(test_plan, test_result, execution_time) ==
    ScoredResult(test_plan, test_result.success, execution_time,
                 extract_coverage_from_result(test_result),
                 extract_test_counts_from_result(test_result),
                 extract_performance_metrics(test_result),
                 test_result.errors)

\* what gather(..., return_exceptions=True) holds for one coroutine
Returned(value) == [raised |-> FALSE, value |-> value]
Raised(message) == [raised |-> TRUE, value |-> message]

\* run_test_plans_parallel, lines 145-163: one element of the loop
ProcessResult(i, result) ==
    IF result.raised
    THEN TestValidationResult(test_plans[i], FALSE, 0, 0, 0, 0, 0, 0, 0, 0,
                              <<result.value>>, <<0, 1>>)
    ELSE result.value

\* the loop appending in the reverse of the task order
ProcessResultsReversed(results) ==
    [i \in 1..Len(results) |->
        ProcessResult(Len(results) + 1 - i, results[Len(results) + 1 - i])]

\* lines 144-163: the loop over the gathered results, in task order
ProcessResults(results) == [i \in 1..Len(results) |-> ProcessResult(i, results[i])]

(***************************************************************************)
(* run_quality_gates and generate_validation_report                        *)
(***************************************************************************)
\* the report the enforcer writes when run with --skip-tests (main, 709-717)
SkipTestsReport == generate_quality_report(<<>>)

\* line 422
GateError == [error |-> "exception"]

\* reports an earlier run of the enforcer left at the path the runner reads
\* (quality_gate_enforcer.py --test-plan ... --output ...), here one with
\* the overall coverage below its threshold
EarlierReports ==
    {generate_quality_report(validate_test_coverage(_initialize_thresholds,
                                                    [lineCoverage |-> c])) :
        c \in {855}}

NoFile == [exists |-> FALSE]
File(content) == [exists |-> TRUE, content |-> content]

\* lines 414-416: the file is loaded when it exists
LoadGateResults(file, previous) == IF file.exists THEN file.content ELSE previous

AllSucceeded(results) == \A i \in 1..Len(results) : results[i].success

\* the mean weighted by the number of tests of each plan
MeanQualityWeighted(results) ==
    LET total == SeqSum([i \in 1..Len(results) |-> results[i].test_count])
        weighted == [i \in 1..Len(results) |->
                        <<results[i].quality_score[1] * results[i].test_count,
                          results[i].quality_score[2]>>]
    IN  IF total = 0 THEN <<0, 1>>
        ELSE LET sum == RatSum(weighted) IN Div(sum[1], sum[2] * total)

\* lines 461-465
MeanQuality(results) ==
    IF Len(results) > 0
    THEN LET sum == RatSum([i \in 1..Len(results) |-> results[i].quality_score])
         IN  Div(sum[1], sum[2] * Len(results))
    ELSE <<0, 1>>

\* the coverage as the plain mean of the plans' coverages
CoverageUnweighted(results) ==
    IF Len(results) > 0
    THEN Div(SeqSum([i \in 1..Len(results) |-> results[i].coverage_percentage]),
             Len(results))
    ELSE <<0, 1>>

\* lines 452-459, in tenths of a percent
WeightedCoverage(results) ==
    LET total_tests == SeqSum([i \in 1..Len(results) |-> results[i].test_count])
    IN  IF Len(results) > 0
        THEN Div(SeqSum([i \in 1..Len(results) |->
                            results[i].coverage_percentage * results[i].test_count]),
                 IF 1 >= total_tests THEN 1 ELSE total_tests)
        ELSE <<0, 1>>

\* one entry of the recommendations: its fixed text and the plans it names
Recommendation(text, plans) == [text |-> text, plans |-> plans]

PlanNames(results) == [i \in 1..Len(results) |-> results[i].test_plan]

\* lines 506-509: the key is looked up at the top level of the loaded
\* report, whose top-level keys are those of generate_quality_report
GateCriticalFailuresTruthy(gate_results) ==
    IF "critical_failures" \in DOMAIN gate_results
    THEN gate_results.critical_failures # 0
    ELSE FALSE

\* lines 488-514
generate_recommendations(results, gate_results) ==
    LET failed_plans == SelectSeq(results, LAMBDA r : ~r.success)
        low_coverage_plans == SelectSeq(results, LAMBDA r : r.coverage_percentage < 800)
        slow_plans == SelectSeq(results, LAMBDA r : r.execution_time_seconds > 300)
        recommendations ==
            (IF failed_plans # <<>>
             THEN <<Recommendation("Fix failing test plans", PlanNames(failed_plans))>>
             ELSE <<>>)
            \o (IF low_coverage_plans # <<>>
                THEN <<Recommendation("Improve test coverage for",
                                      PlanNames(low_coverage_plans))>>
                ELSE <<>>)
            \o (IF slow_plans # <<>>
                THEN <<Recommendation("Optimize performance for slow test plans",
                                      PlanNames(slow_plans))>>
                ELSE <<>>)
            \o (IF GateCriticalFailuresTruthy(gate_results)
                THEN <<Recommendation("Address critical quality gate failures before deployment",
                                      <<>>)>>
                ELSE <<>>)
    IN  IF recommendations = <<>>
        THEN <<Recommendation("All validation checks passed - ready for deployment", <<>>)>>
        ELSE recommendations

generate_validation_report(results, gate_results) ==
    [overall_success |-> AllSucceeded(results),
     total_tests |-> SeqSum([i \in 1..Len(results) |-> results[i].test_count]),
     total_passed |-> SeqSum([i \in 1..Len(results) |-> results[i].passed_count]),
     total_failed |-> SeqSum([i \in 1..Len(results) |-> results[i].failed_count]),
     overall_coverage |-> WeightedCoverage(results),
     overall_quality_score |-> MeanQuality(results),
     test_plan_results |-> results,
     quality_gate_results |-> gate_results,
     recommendations |-> generate_recommendations(results, gate_results)]

\* an exit that reports success whatever the verdict
ExitCodeZero(overall_success) == 0

\* main, line 613
ExitCode(overall_success) == IF overall_success THEN 0 ELSE 1

(***************************************************************************)
(* The runner: main -> run_comprehensive_validation                        *)
(***************************************************************************)
\* neither generate_coverage_report.py nor validate_test_quality.py runs
ToolsIdle ==
    /\ t_pc = "idle"
    /\ parsed = EmptyDict
    /\ tq_validation_results = [passed |-> <<>>, failed |-> <<>>, warnings |-> <<>>]
    /\ tq_success = TRUE
    /\ tq_report = EmptyDict
    /\ quality_gates = EmptyDict
    /\ tq_exit = -1

EnforcerIdle ==
    /\ config = EmptyDict
    /\ quality_thresholds = _initialize_thresholds
    /\ validation_results = <<>>
    /\ e_pc = "idle"
    /\ e_args = EmptyDict
    /\ e_success = TRUE
    /\ quality_report = EmptyDict
    /\ e_exit = -1

Init ==
    /\ parallel_execution \in BOOLEAN
    /\ pc = "start"
    /\ task_pc = [i \in Plans |-> "pending"]
    /\ executor = [i \in Plans |-> [build |-> "none", test |-> NotRun]]
    /\ gathered = EmptyDict
    /\ test_results = <<>>
    /\ gate_file \in {NoFile} \cup {File(r) : r \in EarlierReports}
    /\ quality_gate_results = EmptyDict
    /\ report = EmptyDict
    /\ exit_code = -1
    /\ out_of_order = FALSE
    /\ main_exception = FALSE
    /\ EnforcerIdle
    /\ ToolsIdle

\* main, lines 615-617: an exception that left the try block
MainHandler ==
    /\ main_exception' = TRUE
    /\ exit_code' = 1
    /\ pc' = "done"

\* lines 117-128; `rm` run through the shell with a list gets no operand,
\* so a report file of an earlier run stays.  raises: os.makedirs raised,
\* which nothing between it and main catches
prepare_test_environment(raises) ==
    /\ pc = "start"
    /\ IF raises
       THEN MainHandler
       ELSE /\ pc' = "plans"
            /\ UNCHANGED <<exit_code, main_exception>>
    /\ UNCHANGED <<parallel_execution, task_pc, executor, gathered, test_results,
                   gate_file, quality_gate_results, report, out_of_order>>

\* run_test_plans_parallel starts every coroutine; run_test_plans_sequential
\* starts the next one when the one before has been appended
MayRun(i) ==
    /\ pc = "plans"
    /\ parallel_execution \/ i = Len(test_results) + 1

\* a plan that starts its test run without a build
StartPlanWithoutBuild(i) ==
    /\ MayRun(i)
    /\ task_pc[i] = "pending"
    /\ task_pc' = [task_pc EXCEPT ![i] = "testing"]
    /\ UNCHANGED <<parallel_execution, pc, executor, gathered, test_results,
                   gate_file, quality_gate_results, report, exit_code, out_of_order,
                   main_exception>>

\* execute_test_plan up to the await of the build subprocess
StartPlan(i) ==
    /\ MayRun(i)
    /\ task_pc[i] = "pending"
    /\ task_pc' = [task_pc EXCEPT ![i] = "building"]
    /\ UNCHANGED <<parallel_execution, pc, executor, gathered, test_results,
                   gate_file, quality_gate_results, report, exit_code, out_of_order,
                   main_exception>>

\* the sequential loop giving up at the first plan that did not succeed
SettleFailFast(i, result) ==
    /\ task_pc' = [task_pc EXCEPT ![i] = "settled"]
    /\ gathered' = (i :> Returned(result)) @@ gathered
    /\ out_of_order' = (out_of_order \/ \E j \in 1..(i - 1) : task_pc[j] # "settled")
    /\ IF parallel_execution
       THEN UNCHANGED <<test_results, pc>>
       ELSE /\ test_results' = Append(test_results, result)
            /\ pc' = IF i = Len(test_plans) \/ ~result.success THEN "gates" ELSE pc

\* the coroutine appending its own result as soon as it has it
SettleAppending(i, result) ==
    /\ task_pc' = [task_pc EXCEPT ![i] = "settled"]
    /\ gathered' = (i :> Returned(result)) @@ gathered
    /\ out_of_order' = (out_of_order \/ \E j \in 1..(i - 1) : task_pc[j] # "settled")
    /\ test_results' = Append(test_results, result)
    /\ pc' = IF ~parallel_execution /\ i = Len(test_plans) THEN "gates" ELSE pc

\* what the orchestrating control flow does when execute_test_plan(i) returns:
\* gather keeps the value (line 141); the sequential loop appends it (171)
Settle(i, result) ==
    /\ task_pc' = [task_pc EXCEPT ![i] = "settled"]
    /\ gathered' = (i :> Returned(result)) @@ gathered
    /\ out_of_order' = (out_of_order \/ \E j \in 1..(i - 1) : task_pc[j] # "settled")
    /\ IF parallel_execution
       THEN UNCHANGED <<test_results, pc>>
       ELSE /\ test_results' = Append(test_results, result)
            /\ pc' = IF i = Len(test_plans) THEN "gates" ELSE pc

\* a plan that goes on to its test run whatever its build returned
BuildDoneThenTest(i, outcome) ==
    /\ MayRun(i)
    /\ task_pc[i] = "building"
    /\ executor' = [executor EXCEPT ![i].build = outcome]
    /\ task_pc' = [task_pc EXCEPT ![i] = "testing"]
    /\ UNCHANGED <<gathered, test_results, pc, out_of_order>>
    /\ UNCHANGED <<parallel_execution, gate_file, quality_gate_results, report,
                   exit_code, main_exception>>

\* the build subprocess ends: lines 183-189
BuildDone(i, outcome) ==
    /\ MayRun(i)
    /\ task_pc[i] = "building"
    /\ executor' = [executor EXCEPT ![i].build = outcome]
    /\ IF build_for_testing(outcome)
       THEN /\ task_pc' = [task_pc EXCEPT ![i] = "testing"]
            /\ UNCHANGED <<gathered, test_results, pc, out_of_order>>
       ELSE Settle(i, BuildFailedResult(test_plans[i]))
    /\ UNCHANGED <<parallel_execution, gate_file, quality_gate_results, report,
                   exit_code, main_exception>>

\* the build subprocess never ends: `await process.communicate()` of line
\* 244 has no timeout, so execute_test_plan stays suspended there
BuildHangs(i) ==
    /\ MayRun(i)
    /\ task_pc[i] = "building"
    /\ executor' = [executor EXCEPT ![i].build = "never_returns"]
    /\ task_pc' = [task_pc EXCEPT ![i] = "hung"]
    /\ UNCHANGED <<parallel_execution, pc, gathered, test_results, gate_file,
                   quality_gate_results, report, exit_code, out_of_order,
                   main_exception>>

\* the test subprocess ends or its wait_for times out: lines 189-220
TestDone(i, outcome) ==
    /\ MayRun(i)
    /\ task_pc[i] = "testing"
    /\ executor' = [executor EXCEPT ![i].test = outcome]
    /\ Settle(i, CompletedResult(test_plans[i],
                                 run_xcode_test_plan(test_plans[i], outcome),
                                 ElapsedSeconds(outcome)))
    /\ UNCHANGED <<parallel_execution, gate_file, quality_gate_results, report,
                   exit_code, main_exception>>

\* gather keeping only the plans that succeeded
GatherDoneSuccessesOnly ==
    /\ pc = "plans"
    /\ parallel_execution
    /\ \A i \in Plans : task_pc[i] = "settled"
    /\ test_results' =
           test_results \o SelectSeq(ProcessResults([i \in Plans |-> gathered[i]]),
                                     LAMBDA r : r.success)
    /\ pc' = "gates"
    /\ UNCHANGED <<parallel_execution, task_pc, executor, gathered, gate_file,
                   quality_gate_results, report, exit_code, out_of_order,
                   main_exception>>

\* gather returns once every coroutine has returned: lines 141-163
GatherDone ==
    /\ pc = "plans"
    /\ parallel_execution
    /\ \A i \in Plans : task_pc[i] = "settled"
    /\ test_results' = test_results \o ProcessResults([i \in Plans |-> gathered[i]])
    /\ pc' = "gates"
    /\ UNCHANGED <<parallel_execution, task_pc, executor, gathered, gate_file,
                   quality_gate_results, report, exit_code, out_of_order,
                   main_exception>>

\* run_quality_gates once the enforcer subprocess has ended, then the rest of
\* run_comprehensive_validation and of main, which do not suspend again.
\* enforcer: "written" (it wrote its --skip-tests report to the path the
\* runner reads), "not_written" (it ended without writing there) or
\* "exception" (the subprocess could not be created, or json.load raised)
\* save: "none" (no --output), "saved" (lines 608-610 wrote the file) or
\* "exception" (open or json.dump raised there)
QualityGatesDone(enforcer, save) ==
    /\ pc = "gates"
    /\ gate_file' = IF enforcer = "written" THEN File(SkipTestsReport) ELSE gate_file
    /\ quality_gate_results' =
           IF enforcer = "exception" THEN GateError
           ELSE LoadGateResults(gate_file', quality_gate_results)
    /\ report' = generate_validation_report(test_results, quality_gate_results')
    /\ IF save = "exception"
       THEN MainHandler
       ELSE /\ exit_code' = ExitCode(report'.overall_success)
            /\ pc' = "done"
            /\ UNCHANGED main_exception
    /\ UNCHANGED <<parallel_execution, task_pc, executor, gathered, test_results,
                   out_of_order>>

Next ==
    \/ \E raises \in BOOLEAN : prepare_test_environment(raises) /\ UNCHANGED <<evars, tvars>>
    \/ \E i \in Plans : StartPlan(i) /\ UNCHANGED <<evars, tvars>>
    \/ \E i \in Plans, outcome \in BuildOutcomes : BuildDone(i, outcome) /\ UNCHANGED <<evars, tvars>>
    \/ \E i \in Plans : BuildHangs(i) /\ UNCHANGED <<evars, tvars>>
    \/ \E i \in Plans, outcome \in TestOutcomes : TestDone(i, outcome) /\ UNCHANGED <<evars, tvars>>
    \/ GatherDone /\ UNCHANGED <<evars, tvars>>
    \/ \E enforcer \in {"written", "not_written", "exception"},
          save \in {"none", "saved", "exception"} :
           QualityGatesDone(enforcer, save) /\ UNCHANGED <<evars, tvars>>

Spec == Init /\ [][Next]_vars

(***************************************************************************)
(* Properties of the runner                                                *)
(***************************************************************************)
\* generate_validation_report has run
ReportBuilt == "overall_success" \in DOMAIN report

\* run_test_plans_parallel / run_test_plans_sequential has returned
PlansReturned == pc = "gates" \/ (pc = "done" /\ ReportBuilt)

\* what plan i's own build and test subprocesses make of its result
OwnResult(i) ==
    IF executor[i].build # "ok"
    THEN BuildFailedResult(test_plans[i])
    ELSE CompletedResult(test_plans[i], run_xcode_test_plan(test_plans[i], executor[i].test),
                         ElapsedSeconds(executor[i].test))

Threw(i) ==
    \/ executor[i].build = "exception"
    \/ executor[i].build = "ok" /\ executor[i].test.kind \in {"timeout", "exception"}

\* C1: in concurrent mode, whatever the order in which the plans complete,
\* test_results holds one entry per requested plan and entry i is that of
\* test_plans[i].
C1_RequestOrder ==
    (parallel_execution /\ PlansReturned) =>
        /\ Len(test_results) = Len(test_plans)
        /\ \A i \in Plans : test_results[i].test_plan = test_plans[i]

C1_Witness ==
    /\ parallel_execution
    /\ pc = "done"
    /\ out_of_order
    /\ Len(test_results) = Len(test_plans)
    /\ test_results[1].test_plan = test_plans[1]

\* C2: a plan that throws or times out neither removes nor alters the result
\* of another plan: every plan's entry is the result of its own execution,
\* from the moment it returned to the final list, in both modes.
C2_Isolation ==
    /\ \A i \in DOMAIN gathered : gathered[i] = Returned(OwnResult(i))
    /\ \A i \in 1..Len(test_results) : test_results[i] = OwnResult(i)
    /\ PlansReturned => Len(test_results) = Len(test_plans)

C2_Witness ==
    /\ pc = "done"
    /\ \E j \in Plans :
          /\ Threw(j)
          /\ ~test_results[j].success
          /\ test_results[j].errors # <<>>
          /\ \A i \in Plans \ {j} :
                /\ ~Threw(i)
                /\ test_results[i].success
                /\ test_results[i].test_count = 6

\* C3: a plan that timed out or whose executor raised gets a result with
\* success = false, all four counts zero and a non-empty errors list.
C3_SynthesizedFailure ==
    \A i \in 1..Len(test_results) :
        Threw(i) =>
            /\ ~test_results[i].success
            /\ test_results[i].test_count = 0
            /\ test_results[i].passed_count = 0
            /\ test_results[i].failed_count = 0
            /\ test_results[i].skipped_count = 0
            /\ test_results[i].errors # <<>>

\* C4: in concurrent mode test_results gets no entry while a plan is still
\* unsettled, a failure stops no other plan from running, and a complete list
\* is what report building gets.
C4_CollectAll ==
    parallel_execution =>
        /\ (\E i \in Plans : task_pc[i] # "settled") => test_results = <<>>
        /\ PlansReturned =>
              /\ \A i \in Plans : task_pc[i] = "settled" /\ executor[i].build # "none"
              /\ Len(test_results) = Len(test_plans)
        /\ ReportBuilt => Len(report.test_plan_results) = Len(test_plans)

C4_Witness ==
    /\ parallel_execution
    /\ pc = "plans"
    /\ task_pc[2] = "settled" /\ ~gathered[2].value.success
    /\ task_pc[1] = "testing"
    /\ task_pc[3] = "pending"
    /\ test_results = <<>>

GateCriticalFailures(gate_results) ==
    IF "quality_gates" \in DOMAIN gate_results
    THEN gate_results.quality_gates.critical_failures
    ELSE 0

\* C10: the report's overall_success is true exactly when every plan result
\* has success = true and the quality-gate results hold no CRITICAL failure.
C10_OverallSuccess ==
    ReportBuilt =>
        (report.overall_success <=>
            /\ AllSucceeded(test_results)
            /\ GateCriticalFailures(quality_gate_results) = 0)

(***************************************************************************)
(* Inputs of the validators                                                *)
(***************************************************************************)
MaxFiles == 2

RECURSIVE SeqsUpTo(_, _)
\* the sequences over S of length at most n
SeqsUpTo(S, n) ==
    IF n = 0 THEN {<<>>}
    ELSE LET shorter == SeqsUpTo(S, n - 1)
         IN  shorter \cup {Append(q, x) : q \in shorter, x \in S}

FileSamples ==
    {[name |-> n, lineCoverage |-> c] :
        n \in FileNames \ {""}, c \in {900, 1000}}

\* the 'coverage' value xccov's JSON gives (lines 223-225)
CoverageSamples ==
    {[lineCoverage |-> 850], [lineCoverage |-> 855], [lineCoverage |-> 900],
     [lineCoverage |-> 960], EmptyDict,
     [lineCoverage |-> 960,
      targets |-> <<[name |-> "Empty.framework"],
                    [name |-> "A.app", files |-> <<[name |-> "PaymentService.swift"]>>],
                    [name |-> "B.app",
                     files |-> <<[lineCoverage |-> 1000],
                                 [name |-> "GolfCourseService.swift",
                                  lineCoverage |-> 980]>>]>>]}
    \cup {[lineCoverage |-> 960, targets |-> <<[name |-> "GolfFinderSwiftUI.app", files |-> fs]>>] :
            fs \in SeqsUpTo(FileSamples, MaxFiles)}

PerformanceSamples ==
    {EmptyDict,
     [execution_time_minutes |-> 20],
     [execution_time_minutes |-> 40],
     [execution_time_minutes |-> 45],
     [execution_time_minutes |-> 50],
     [execution_time_minutes |-> 20,
      slow_tests |-> <<[name |-> "testA", duration_seconds |-> 31], [name |-> "testB"]>>],
     [execution_time_minutes |-> 20, slow_tests |-> <<[duration_seconds |-> 30]>>,
      memory_leaks |-> 0],
     [execution_time_minutes |-> 20, memory_leaks |-> 1]}

SecuritySamples ==
    {EmptyDict, run_security_scan,
     [vulnerabilities |-> EmptyDict, test_coverage |-> 950],
     [vulnerabilities |-> [critical |-> 1], test_coverage |-> 965],
     [vulnerabilities |-> [high |-> 1], test_coverage |-> 965],
     [vulnerabilities |-> [medium |-> 3], test_coverage |-> 965],
     [vulnerabilities |-> [critical |-> 0, high |-> 0, medium |-> 2], test_coverage |-> 940]}

(***************************************************************************)
(* The validators applied to any metrics: the steps of                     *)
(* run_comprehensive_validation with what the executor and the scanner     *)
(* return left open, then the report and the verdict of main.              *)
(***************************************************************************)
RunnerIdle ==
    /\ parallel_execution = FALSE
    /\ pc = "idle"
    /\ task_pc = [i \in Plans |-> "pending"]
    /\ executor = [i \in Plans |-> [build |-> "none", test |-> NotRun]]
    /\ gathered = EmptyDict
    /\ test_results = <<>>
    /\ gate_file = NoFile
    /\ quality_gate_results = EmptyDict
    /\ report = EmptyDict
    /\ exit_code = -1
    /\ out_of_order = FALSE
    /\ main_exception = FALSE

HasCheck(results, check_name) ==
    \E i \in 1..Len(results) : results[i].check_name = check_name

InitValidators ==
    /\ RunnerIdle
    /\ config = EmptyDict
    /\ quality_thresholds \in {_initialize_thresholds, StrictThresholds(_initialize_thresholds)}
    /\ validation_results = <<>>
    /\ e_pc = "validating"
    /\ e_args = EmptyDict
    /\ e_success = TRUE
    /\ quality_report = EmptyDict
    /\ e_exit = -1
    /\ ToolsIdle

\* lines 646-647
CheckCoverage(coverage_data) ==
    /\ e_pc = "validating"
    /\ ~HasCheck(validation_results, quality_thresholds.overall_test_coverage.name)
    /\ validation_results' =
           validation_results \o validate_test_coverage(quality_thresholds, coverage_data)
    /\ UNCHANGED <<config, quality_thresholds, e_pc, e_args, e_success, quality_report,
                   e_exit>>

\* lines 649-650
CheckPerformance(performance_data) ==
    /\ e_pc = "validating"
    /\ ~HasCheck(validation_results, quality_thresholds.max_test_execution_time.name)
    /\ validation_results' =
           validation_results \o validate_performance_metrics(quality_thresholds, performance_data)
    /\ UNCHANGED <<config, quality_thresholds, e_pc, e_args, e_success, quality_report,
                   e_exit>>

\* lines 668-669
CheckSecurity(security_data) ==
    /\ e_pc = "validating"
    /\ ~HasCheck(validation_results, quality_thresholds.critical_vulnerabilities.name)
    /\ validation_results' =
           validation_results \o validate_security_compliance(quality_thresholds, security_data)
    /\ UNCHANGED <<config, quality_thresholds, e_pc, e_args, e_success, quality_report,
                   e_exit>>

\* lines 674-677 and main, lines 714-728; success is what the plan runs gave
ReportAndExit(success) ==
    /\ e_pc \in {"validating", "scoring"}
    /\ quality_report' = generate_quality_report(validation_results)
    /\ e_success' = success
    /\ e_exit' = ExitCode(FinalSuccess(success, validation_results))
    /\ e_pc' = "exited"
    /\ UNCHANGED <<config, quality_thresholds, validation_results, e_args>>

NextValidators ==
    \/ \E d \in CoverageSamples : CheckCoverage(d) /\ UNCHANGED <<rvars, tvars>>
    \/ \E d \in PerformanceSamples : CheckPerformance(d) /\ UNCHANGED <<rvars, tvars>>
    \/ \E d \in SecuritySamples : CheckSecurity(d) /\ UNCHANGED <<rvars, tvars>>
    \/ \E success \in BOOLEAN : ReportAndExit(success) /\ UNCHANGED <<rvars, tvars>>

SpecValidators == InitValidators /\ [][NextValidators]_vars

(***************************************************************************)
(* The scorer and the report on any list of results                        *)
(***************************************************************************)
MaxResults == 3

AnyResults ==
    SeqsUpTo({QualityResult("check", passed, <<0, 1>>, 0, severity) :
                 passed \in BOOLEAN, severity \in Severities},
             MaxResults)

InitScore ==
    /\ RunnerIdle
    /\ config = EmptyDict
    /\ quality_thresholds = _initialize_thresholds
    /\ validation_results \in AnyResults
    /\ e_pc = "scoring"
    /\ e_args = EmptyDict
    /\ e_success = TRUE
    /\ quality_report = EmptyDict
    /\ e_exit = -1
    /\ ToolsIdle

NextScore == \E success \in BOOLEAN : ReportAndExit(success) /\ UNCHANGED <<rvars, tvars>>

SpecScore == InitScore /\ [][NextScore]_vars

(***************************************************************************)
(* Properties of the enforcer                                              *)
(***************************************************************************)
Checks == 1..Len(validation_results)

\* the registry entry a result was checked against
ThresholdOf(result) ==
    quality_thresholds[CHOOSE k \in DOMAIN quality_thresholds :
                           quality_thresholds[k].name = result.check_name]

FailedCritical(i) ==
    /\ ThresholdOf(validation_results[i]).critical
    /\ ~validation_results[i].passed

Reported == e_pc = "exited"

\* C5: a failed check against a threshold whose critical flag is true has
\* severity CRITICAL, and with such a result the report's overall_passed and
\* the enforcer's final success are both false.
C5_CriticalBlocks ==
    /\ \A i \in Checks : FailedCritical(i) => validation_results[i].severity = "CRITICAL"
    /\ (Reported /\ \E i \in Checks : FailedCritical(i)) =>
           /\ ~quality_report.execution_summary.overall_passed
           /\ e_exit = 1

C5_Witness ==
    /\ Reported
    /\ e_success
    /\ e_exit = 1
    /\ ~quality_report.execution_summary.overall_passed
    /\ \E i \in Checks :
          /\ validation_results[i].check_name = "Memory Leaks"
          /\ FailedCritical(i)
          /\ validation_results[i].severity = "CRITICAL"
          /\ \A j \in Checks \ {i} : validation_results[j].passed

\* C6: every result in validation_results has severity CRITICAL exactly when
\* its threshold is critical and the check failed, WARNING exactly when its
\* threshold is not critical and the check failed, INFO exactly when it passed.
C6_SeverityInvariant ==
    \A i \in Checks :
        LET r == validation_results[i]
            critical == ThresholdOf(r).critical
        IN  /\ r.severity = "CRITICAL" <=> (critical /\ ~r.passed)
            /\ r.severity = "WARNING" <=> (~critical /\ ~r.passed)
            /\ r.severity = "INFO" <=> r.passed

C6_Witness ==
    \E i, j, k \in Checks :
        /\ validation_results[i].severity = "CRITICAL" /\ FailedCritical(i)
        /\ validation_results[j].severity = "WARNING" /\ ~validation_results[j].passed
        /\ ~ThresholdOf(validation_results[j]).critical
        /\ validation_results[k].severity = "INFO" /\ validation_results[k].passed

CriticalFailureCount ==
    Cardinality({i \in Checks : /\ ~validation_results[i].passed
                                /\ validation_results[i].severity = "CRITICAL"})

\* C7: overall_passed is true exactly when no result has severity CRITICAL
\* and passed = false, whatever the score is.
C7_VerdictIgnoresScore ==
    Reported =>
        (quality_report.execution_summary.overall_passed <=> CriticalFailureCount = 0)

C7_Witness ==
    /\ Reported
    /\ quality_report.execution_summary.overall_passed
    /\ quality_report.execution_summary.quality_score = <<0, 1>>
    /\ \E i \in Checks : /\ ~validation_results[i].passed
                         /\ validation_results[i].severity = "WARNING"

\* C8: the score is in [0,100], is 0 for the empty list and 100 for a
\* non-empty list whose results all passed.
C8_ScoreRange ==
    Reported =>
        LET score == quality_report.execution_summary.quality_score
        IN  /\ score[2] > 0
            /\ RatLeq(<<0, 1>>, score)
            /\ RatLeq(score, <<100, 1>>)
            /\ validation_results = <<>> => RatEq(score, <<0, 1>>)
            /\ (validation_results # <<>> /\ \A i \in Checks : validation_results[i].passed)
                   => RatEq(score, <<100, 1>>)

C8_Witness ==
    /\ Reported
    /\ Len(validation_results) >= 2
    /\ \A i \in Checks : validation_results[i].passed
    /\ \E i \in Checks : validation_results[i].severity = "CRITICAL"
    /\ quality_report.execution_summary.quality_score = <<100, 1>>

\* the number of results of one weight class, all or the passed ones
CountOf(IsClass(_), passed_only) ==
    Cardinality({i \in Checks : /\ IsClass(validation_results[i].severity)
                                /\ passed_only => validation_results[i].passed})

IsCriticalSeverity(severity) == severity = "CRITICAL"
IsWarningSeverity(severity) == severity = "WARNING"
IsOtherSeverity(severity) == severity \notin {"CRITICAL", "WARNING"}

Reordered(results, p) == [i \in 1..Len(results) |-> results[p[i]]]

\* C9: for a non-empty list the score is the sum of weight * (100 if passed
\* else 0) over the sum of the weights, with weight 3.0 for CRITICAL, 1.0 for
\* WARNING and 0.5 for any other severity, in whatever order the results are
\* (the weights are written in halves: 6, 2 and 1).
C9_WeightedMean ==
    (Reported /\ validation_results # <<>>) =>
        /\ RatEq(quality_report.execution_summary.quality_score,
                 <<100 * (6 * CountOf(IsCriticalSeverity, TRUE)
                          + 2 * CountOf(IsWarningSeverity, TRUE)
                          + CountOf(IsOtherSeverity, TRUE)),
                   6 * CountOf(IsCriticalSeverity, FALSE)
                   + 2 * CountOf(IsWarningSeverity, FALSE)
                   + CountOf(IsOtherSeverity, FALSE)>>)
        /\ \A p \in Permutations(Checks) :
               calculate_overall_quality_score(Reordered(validation_results, p))
                   = quality_report.execution_summary.quality_score

C9_Witness ==
    /\ Reported
    /\ Len(validation_results) = 3
    /\ validation_results[1].severity = "INFO" /\ ~validation_results[1].passed
    /\ validation_results[2].severity = "WARNING" /\ ~validation_results[2].passed
    /\ validation_results[3].severity = "CRITICAL" /\ validation_results[3].passed
    /\ quality_report.execution_summary.quality_score = <<200, 3>>

(***************************************************************************)
(* generate_validation_report on any list of plan results                  *)
(***************************************************************************)
MaxPlanResults == 4

Counts(total, passed, failed, skipped) ==
    [total |-> total, passed |-> passed, failed |-> failed, skipped |-> skipped]

\* the plan results the lists are made of: a synthesized failure, a plan
\* with full marks, the runner's usual successful plan, a plan whose tests
\* failed, a successful plan with low coverage and high memory use and a
\* successful plan that counted no test
PlanResultSamples ==
    {create_failed_result("plan", <<Message("Build failed for", "plan")>>),
     ScoredResult("plan", TRUE, 120, 900, Counts(2, 2, 0, 0),
                  [memory_mb |-> 0, cpu_percent |-> 0], <<>>),
     ScoredResult("plan", TRUE, 300, 855, Counts(6, 4, 1, 1),
                  [memory_mb |-> 1255, cpu_percent |-> 352], <<>>),
     ScoredResult("plan", FALSE, 120, 0, Counts(6, 4, 1, 1),
                  [memory_mb |-> 1255, cpu_percent |-> 352], <<>>),
     ScoredResult("plan", TRUE, 400, 450, Counts(1, 0, 1, 0),
                  [memory_mb |-> 6000, cpu_percent |-> 990], <<>>),
     ScoredResult("plan", TRUE, 120, 900, Counts(0, 0, 0, 0),
                  [memory_mb |-> 0, cpu_percent |-> 0], <<>>)}

PlanName(i) == test_plans[((i - 1) % Len(test_plans)) + 1]

AnyPlanResults ==
    {[i \in 1..Len(s) |-> [s[i] EXCEPT !.test_plan = PlanName(i)]] :
        s \in SeqsUpTo(PlanResultSamples, MaxPlanResults)}

InitReport ==
    /\ parallel_execution = FALSE
    /\ pc = "reporting"
    /\ task_pc = [i \in Plans |-> "settled"]
    /\ executor = [i \in Plans |-> [build |-> "none", test |-> NotRun]]
    /\ gathered = EmptyDict
    /\ test_results \in AnyPlanResults
    /\ gate_file = NoFile
    /\ quality_gate_results = EmptyDict
    /\ report = EmptyDict
    /\ exit_code = -1
    /\ out_of_order = FALSE
    /\ main_exception = FALSE
    /\ EnforcerIdle
    /\ ToolsIdle

\* run_comprehensive_validation, line 107
GenerateReport(gate_results) ==
    /\ pc = "reporting"
    /\ quality_gate_results' = gate_results
    /\ report' = generate_validation_report(test_results, gate_results)
    /\ pc' = "reported"
    /\ UNCHANGED <<parallel_execution, task_pc, executor, gathered, test_results,
                   gate_file, exit_code, out_of_order, main_exception>>

NextReport ==
    \E gate_results \in {EmptyDict, GateError} \cup EarlierReports :
        GenerateReport(gate_results) /\ UNCHANGED <<evars, tvars>>

SpecReport == InitReport /\ [][NextReport]_vars

PlanResults == 1..Len(test_results)

QualityScores(results) == [i \in 1..Len(results) |-> results[i].quality_score]

\* the same plans with every test_count set to n
WithTestCount(results, n) ==
    [i \in 1..Len(results) |-> [results[i] EXCEPT !.test_count = n]]

\* C11: overall_quality_score is the plain mean of the plans' quality scores
\* (0 for no plan), whatever their test counts and their order; three
\* successful plans at 100 and a failed one at 0 give 75 and
\* overall_success = false.
C11_UnweightedMean ==
    pc = "reported" =>
        LET score == report.overall_quality_score
            n == Len(test_results)
        IN  /\ n = 0 => score = <<0, 1>>
            /\ RatEq(<<score[1] * n, score[2]>>, RatSum(QualityScores(test_results)))
            /\ \A p \in Permutations(PlanResults) :
                   MeanQuality(Reordered(test_results, p)) = score
            /\ \A c \in 0..1 :
                   generate_validation_report(WithTestCount(test_results, c),
                                              quality_gate_results).overall_quality_score
                       = score
            /\ (/\ n = 4
                /\ Cardinality({i \in PlanResults :
                                   /\ test_results[i].success
                                   /\ test_results[i].quality_score = <<100, 1>>}) = 3
                /\ Cardinality({i \in PlanResults :
                                   /\ ~test_results[i].success
                                   /\ test_results[i].quality_score = <<0, 1>>}) = 1)
               => score = <<75, 1>> /\ ~report.overall_success

C11_Witness ==
    /\ pc = "reported"
    /\ Len(test_results) = 4
    /\ \A i \in {1, 2, 4} :
           /\ test_results[i].success
           /\ test_results[i].quality_score = <<100, 1>>
    /\ ~test_results[3].success
    /\ test_results[3].quality_score = <<0, 1>>
    /\ report.overall_quality_score = <<75, 1>>
    /\ ~report.overall_success

\* C12: overall_coverage is the sum of coverage * test_count over the sum of
\* the test counts, and exactly 0 when that sum is zero, the empty list
\* included.
C12_WeightedCoverage ==
    pc = "reported" =>
        LET total == SeqSum([i \in PlanResults |-> test_results[i].test_count])
            weighted == SeqSum([i \in PlanResults |->
                                   test_results[i].coverage_percentage
                                       * test_results[i].test_count])
        IN  /\ total = 0 => report.overall_coverage = <<0, 1>>
            /\ total > 0 => /\ RatEq(report.overall_coverage, <<weighted, total>>)
                            /\ report.overall_coverage[2] > 0

C12_Witness ==
    /\ pc = "reported"
    /\ Len(test_results) = 3
    /\ \A i \in PlanResults : test_results[i].test_count = 0
    /\ test_results[2].coverage_percentage = 900
    /\ report.total_tests = 0
    /\ report.overall_coverage = <<0, 1>>

(***************************************************************************)
(* The enforcer: main -> run_comprehensive_validation                      *)
(***************************************************************************)
\* --config: not given, a path that does not exist, a file json.load
\* rejects, and two files it accepts
ConfigFiles ==
    {[kind |-> k, content |-> EmptyDict] : k \in {"none", "missing", "malformed"}}
    \cup {[kind |-> "valid", content |-> c] :
             c \in {[overall_test_coverage |-> 500], [no_such_threshold |-> 1]}}

\* lines 168-176: a file that cannot be loaded is reported by a warning
_load_config(config_file) ==
    IF config_file.kind = "valid" THEN config_file.content ELSE EmptyDict

\* what the two xcodebuild subprocesses and xccov of one plan run can do.
\* "timeout" is subprocess.TimeoutExpired of either subprocess, "exception"
\* any other exception of subprocess.run
XcodeOutcomesOver(coverages) ==
    [kind : {"build_failed", "timeout", "exception"}, returncode : {1},
     minutes : {0}, coverage : {EmptyDict}]
    \cup [kind : {"ran"}, returncode : {0, 1}, minutes : {20, 40},
          coverage : coverages]

\* the outcomes of a run whose coverage data is validated
XcodeOutcomes == XcodeOutcomesOver(CoverageSamples)

\* the outcomes of a run of which only the success flag is read
XcodeOutcomesUnread == XcodeOutcomesOver({EmptyDict, [lineCoverage |-> 855]})

\* lines 178-234: the pair (success, data).  _extract_coverage_data gives
\* None or the parsed JSON, and a falsy value adds no 'coverage' key
run_xcode_test_with_coverage(test_plan, outcome) ==
    CASE outcome.kind = "build_failed" -> <<FALSE, EmptyDict>>
      [] outcome.kind = "timeout" ->
             <<FALSE, [error |-> "timeout", execution_time_minutes |-> 45]>>
      [] outcome.kind = "exception" -> <<FALSE, [error |-> "exception"]>>
      [] OTHER ->
             <<outcome.returncode = 0,
               [success |-> outcome.returncode = 0,
                execution_time_minutes |-> outcome.minutes]
               @@ (IF DOMAIN outcome.coverage # {}
                   THEN [coverage |-> outcome.coverage] ELSE EmptyDict)>>

\* lines 646-648 and 703-705
CoverageResults(th, data) ==
    IF "coverage" \in DOMAIN data THEN validate_test_coverage(th, data.coverage) ELSE <<>>

InitGate ==
    /\ RunnerIdle
    /\ config = EmptyDict
    /\ quality_thresholds = _initialize_thresholds
    /\ validation_results = <<>>
    /\ e_pc = "start"
    /\ e_args \in [config : ConfigFiles, strict : BOOLEAN, output : BOOLEAN,
                   mode : {"test_plan", "comprehensive", "skip_tests"}]
    /\ e_success = TRUE
    /\ quality_report = EmptyDict
    /\ e_exit = -1
    /\ ToolsIdle

\* a start that leaves the --strict values for later
EnforcerStartWithoutStrict ==
    /\ e_pc = "start"
    /\ config' = _load_config(e_args.config)
    /\ quality_thresholds' = _initialize_thresholds
    /\ e_pc' = CASE e_args.mode = "test_plan" -> "single"
                 [] e_args.mode = "comprehensive" -> "unit"
                 [] OTHER -> "finish"
    /\ UNCHANGED <<validation_results, e_args, e_success, quality_report, e_exit>>

\* main, lines 689-711: the enforcer is built, --strict is applied and the
\* mode is chosen
EnforcerStart ==
    /\ e_pc = "start"
    /\ config' = _load_config(e_args.config)
    /\ quality_thresholds' = IF e_args.strict
                             THEN StrictThresholds(_initialize_thresholds)
                             ELSE _initialize_thresholds
    /\ e_pc' = CASE e_args.mode = "test_plan" -> "single"
                 [] e_args.mode = "comprehensive" -> "unit"
                 [] OTHER -> "finish"
    /\ UNCHANGED <<validation_results, e_args, e_success, quality_report, e_exit>>

\* main, lines 701-705
SinglePlanDone(outcome) ==
    /\ e_pc = "single"
    /\ LET run == run_xcode_test_with_coverage("plan", outcome)
       IN  /\ validation_results' =
                  validation_results \o CoverageResults(quality_thresholds, run[2])
           /\ e_success' = run[1]
    /\ e_pc' = "finish"
    /\ UNCHANGED <<config, quality_thresholds, e_args, quality_report, e_exit>>

\* run_comprehensive_validation, lines 642-652
UnitPlanDone(outcome) ==
    /\ e_pc = "unit"
    /\ LET run == run_xcode_test_with_coverage("UnitTestPlan", outcome)
       IN  /\ validation_results' =
                  validation_results
                      \o CoverageResults(quality_thresholds, run[2])
                      \o validate_performance_metrics(quality_thresholds, run[2])
           /\ e_success' = run[1]
    /\ e_pc' = "integration"
    /\ UNCHANGED <<config, quality_thresholds, e_args, quality_report, e_exit>>

\* lines 654-662: the integration and the performance plan
LaterPlanDone(outcome) ==
    /\ e_pc \in {"integration", "performance"}
    /\ e_success' = (e_success /\ run_xcode_test_with_coverage(e_pc, outcome)[1])
    /\ e_pc' = IF e_pc = "integration" THEN "performance" ELSE "security"
    /\ UNCHANGED <<config, quality_thresholds, validation_results, e_args,
                   quality_report, e_exit>>

\* lines 664-677: the security plan, the scan, the report and the verdict
SecurityPlanDone(outcome) ==
    /\ e_pc = "security"
    /\ validation_results' =
           validation_results
               \o validate_security_compliance(quality_thresholds, run_security_scan)
    /\ quality_report' = generate_quality_report(validation_results')
    /\ e_success' =
           /\ e_success
           /\ run_xcode_test_with_coverage("SecurityTestPlan", outcome)[1]
           /\ quality_report'.execution_summary.overall_passed
    /\ e_pc' = "finish"
    /\ UNCHANGED <<config, quality_thresholds, e_args, e_exit>>

\* main, lines 713-728.  save_raises: open or json.dump of lines 716-717
\* raised, which nothing catches, so the interpreter exits with 1
Finish(save_raises) ==
    /\ e_pc = "finish"
    /\ quality_report' = IF e_args.output
                         THEN generate_quality_report(validation_results)
                         ELSE quality_report
    /\ e_exit' = IF e_args.output /\ save_raises
                 THEN 1
                 ELSE ExitCode(FinalSuccess(e_success, validation_results))
    /\ e_pc' = "exited"
    /\ UNCHANGED <<config, quality_thresholds, validation_results, e_args, e_success>>

NextGate ==
    \/ EnforcerStart /\ UNCHANGED <<rvars, tvars>>
    \/ \E outcome \in XcodeOutcomes : SinglePlanDone(outcome) /\ UNCHANGED <<rvars, tvars>>
    \/ \E outcome \in XcodeOutcomes : UnitPlanDone(outcome) /\ UNCHANGED <<rvars, tvars>>
    \/ \E outcome \in XcodeOutcomesUnread : LaterPlanDone(outcome) /\ UNCHANGED <<rvars, tvars>>
    \/ \E outcome \in XcodeOutcomesUnread : SecurityPlanDone(outcome) /\ UNCHANGED <<rvars, tvars>>
    \/ \E save_raises \in BOOLEAN : Finish(save_raises) /\ UNCHANGED <<rvars, tvars>>

SpecGate == InitGate /\ [][NextGate]_vars

\* the checks the enforcer defines validators for
GateChecks ==
    {"overall_test_coverage", "critical_path_coverage", "service_layer_coverage",
     "max_test_execution_time", "max_individual_test_time", "memory_leak_threshold",
     "critical_vulnerabilities", "high_vulnerabilities", "medium_vulnerabilities",
     "security_test_coverage"}

ComprehensiveRunEnded ==
    e_pc \in {"finish", "exited"} /\ e_args.mode = "comprehensive"

\* C13: after a comprehensive run validation_results and the report hold a
\* result for every check the enforcer defines validators for, whatever the
\* plan runs returned.
C13_EveryCheckListed ==
    ComprehensiveRunEnded =>
        /\ \A k \in GateChecks : HasCheck(validation_results, quality_thresholds[k].name)
        /\ quality_report.quality_gates.total_checks = Cardinality(GateChecks)

\* C14: the runner exits with 0 exactly when it built a report whose
\* overall_success is true and no exception left the try block of main, and
\* with 1 otherwise; an exception that reaches main's handler gives 1.
C14_ExitCode ==
    /\ (pc = "done") <=> (exit_code \in {0, 1})
    /\ (pc # "done") <=> (exit_code = -1)
    /\ pc = "done" =>
           IF main_exception \/ ~ReportBuilt
           THEN exit_code = 1 /\ main_exception
           ELSE exit_code = IF report.overall_success THEN 0 ELSE 1

C14_Witness ==
    /\ pc = "done"
    /\ ~main_exception
    /\ report.overall_success
    /\ Len(report.test_plan_results) = Len(test_plans)
    /\ exit_code = 0

\* the polarity of the checks the validators make
AtLeastChecks ==
    {"overall_test_coverage", "critical_path_coverage", "service_layer_coverage",
     "security_test_coverage"}

AtMostChecks ==
    {"max_test_execution_time", "memory_leak_threshold", "critical_vulnerabilities",
     "high_vulnerabilities", "medium_vulnerabilities"}

NamesOf(keys) == {quality_thresholds[k].name : k \in keys}

\* C15: a coverage check passes exactly when actual >= value, an at-most
\* check (execution time, slow tests, memory leaks, vulnerability counts)
\* exactly when actual <= value, a value equal to the threshold passing.
\* Overall coverage 85.0 against the critical threshold 90 fails with
\* severity CRITICAL and, as the only check, gives score 0 and a failing
\* verdict; 0 critical vulnerabilities against the threshold 0 pass with INFO.
C15_Polarity ==
    /\ \A i \in Checks :
           LET r == validation_results[i]
               value == <<r.threshold_value, 1>>
           IN  /\ r.check_name \in NamesOf(AtLeastChecks \cup AtMostChecks)
                      => r.threshold_value = ThresholdOf(r).value
               /\ r.check_name \in NamesOf(AtLeastChecks)
                      => (r.passed <=> RatLeq(value, r.actual_value))
               /\ r.check_name \notin NamesOf(AtLeastChecks)
                      => (r.passed <=> RatLeq(r.actual_value, value))
               /\ (/\ r.check_name = quality_thresholds.overall_test_coverage.name
                   /\ r.actual_value = <<850, 1>>
                   /\ r.threshold_value = 900)
                      => ~r.passed /\ r.severity = "CRITICAL"
               /\ (/\ r.check_name = quality_thresholds.critical_vulnerabilities.name
                   /\ r.actual_value = <<0, 1>>)
                      => r.passed /\ r.severity = "INFO"
    /\ (Reported /\ Len(validation_results) = 1 /\ ~validation_results[1].passed
            /\ validation_results[1].severity = "CRITICAL")
           => /\ quality_report.execution_summary.quality_score = <<0, 1>>
              /\ ~quality_report.execution_summary.overall_passed
              /\ e_exit = 1

C15_Witness ==
    /\ Reported
    /\ Len(validation_results) = 1
    /\ validation_results[1].check_name = "Overall Test Coverage"
    /\ validation_results[1].actual_value = <<850, 1>>
    /\ validation_results[1].threshold_value = 900
    /\ ~validation_results[1].passed
    /\ validation_results[1].severity = "CRITICAL"
    /\ quality_report.execution_summary.quality_score = <<0, 1>>
    /\ ~quality_report.execution_summary.overall_passed
    /\ e_exit = 1

\* C16: with a config file that cannot be loaded the enforcer ends with an
\* error at startup: no plan is run, no check is made and the exit code is
\* not 0.
C16_ConfigErrorFatal ==
    e_args.config.kind = "malformed" =>
        /\ e_pc \in {"start", "exited"}
        /\ validation_results = <<>>
        /\ e_pc = "exited" => e_exit = 1

\* the value a run started with e_args checks a threshold against
RunValue(k) ==
    IF ~e_args.strict THEN _initialize_thresholds[k].value
    ELSE CASE k = "overall_test_coverage" -> 950
           [] k = "critical_path_coverage" -> 980
           [] k = "max_test_execution_time" -> 30
           [] k = "test_flaky_rate" -> 10
           [] OTHER -> _initialize_thresholds[k].value

\* C17: once main has passed its start (before the first plan run and the
\* first check) the registry holds the defaults with the --strict values
\* written over them, and stays so until the run ends: no value or
\* criticality changes, no name is added or removed, and every result was
\* checked against the value of its run.
C17_ThresholdsFrozen ==
    e_pc # "start" =>
        /\ DOMAIN quality_thresholds = DOMAIN _initialize_thresholds
        /\ \A k \in DOMAIN quality_thresholds :
               /\ quality_thresholds[k].value = RunValue(k)
               /\ quality_thresholds[k].critical = _initialize_thresholds[k].critical
               /\ quality_thresholds[k].name = _initialize_thresholds[k].name
        /\ \A i \in Checks, k \in DOMAIN quality_thresholds \ {"max_individual_test_time"} :
               validation_results[i].check_name = quality_thresholds[k].name
                   => validation_results[i].threshold_value = RunValue(k)

C17_Witness ==
    /\ e_pc = "exited"
    /\ e_args.strict
    /\ e_args.mode = "comprehensive"
    /\ quality_thresholds.overall_test_coverage.value = 950
    /\ \E i \in Checks :
           /\ validation_results[i].check_name = "Overall Test Coverage"
           /\ validation_results[i].threshold_value = 950
    /\ \E i \in Checks :
           /\ validation_results[i].check_name = "Test Execution Time"
           /\ validation_results[i].threshold_value = 30

\* C18: every plan's build and test run are bounded by a timeout, so a run
\* that has not ended can always go on: no state short of the runner's exit
\* is one in which nothing further can happen.
C18_TimeoutBoundsEveryPlan ==
    pc # "done" => ENABLED Next

(***************************************************************************)
(* The quality score of one plan on any metrics                            *)
(***************************************************************************)
MaxTests == 3

\* coverage in tenths of a percent: 0, 45.0, 85.5, 90.0 and 100.0
CoverageValues == {0, 450, 855, 900, 1000}

\* memory in tenths of a MB: 0, 125.5, 500.0 and 600.0
MemoryValues == {0, 1255, 5000, 6000}

\* the counts with 0 <= passed <= total <= MaxTests
TestCounts ==
    UNION {{Counts(total, passed, total - passed, 0) : passed \in 0..total} :
              total \in 0..MaxTests}

InitQuality ==
    /\ parallel_execution = FALSE
    /\ pc = "scoring"
    /\ task_pc = [i \in Plans |-> "testing"]
    /\ executor = [i \in Plans |-> [build |-> "none", test |-> NotRun]]
    /\ gathered = EmptyDict
    /\ test_results = <<>>
    /\ gate_file = NoFile
    /\ quality_gate_results = EmptyDict
    /\ report = EmptyDict
    /\ exit_code = -1
    /\ out_of_order = FALSE
    /\ main_exception = FALSE
    /\ EnforcerIdle
    /\ ToolsIdle

\* execute_test_plan, lines 198-220, on the metrics extracted from a test run
ScorePlan(success, coverage, test_counts, performance) ==
    /\ pc = "scoring"
    /\ test_results' = <<ScoredResult(test_plans[1], success, 120, coverage, test_counts,
                                      performance, <<>>)>>
    /\ pc' = "scored"
    /\ UNCHANGED <<parallel_execution, task_pc, executor, gathered, gate_file,
                   quality_gate_results, report, exit_code, out_of_order,
                   main_exception>>

\* the results made without a test run: create_failed_result after a failed
\* build (lines 184-186) and the record for an exception gather returned
\* (lines 147-161)
SynthesizeFailure(raised) ==
    /\ pc = "scoring"
    /\ test_results' =
           <<IF raised THEN ProcessResult(1, Raised(Message("exception", test_plans[1])))
             ELSE BuildFailedResult(test_plans[1])>>
    /\ pc' = "scored"
    /\ UNCHANGED <<parallel_execution, task_pc, executor, gathered, gate_file,
                   quality_gate_results, report, exit_code, out_of_order,
                   main_exception>>

NextQuality ==
    \/ \E success \in BOOLEAN, coverage \in CoverageValues, test_counts \in TestCounts,
          memory_mb \in MemoryValues :
           ScorePlan(success, coverage, test_counts,
                     [memory_mb |-> memory_mb, cpu_percent |-> 352]) /\ UNCHANGED <<evars, tvars>>
    \/ \E raised \in BOOLEAN : SynthesizeFailure(raised) /\ UNCHANGED <<evars, tvars>>

SpecQuality == InitQuality /\ [][NextQuality]_vars

\* C19: the quality score of every plan result is a number from 0 to 100,
\* and it is exactly 0 for a plan that did not succeed, synthesized failures
\* included.
C19_PlanScoreRange ==
    \A i \in PlanResults :
        LET score == test_results[i].quality_score
        IN  /\ score[2] > 0
            /\ RatLeq(<<0, 1>>, score)
            /\ RatLeq(score, <<100, 1>>)
            /\ ~test_results[i].success => score = <<0, 1>>

C19_Witness ==
    /\ pc = "scored"
    /\ test_results[1].success
    /\ test_results[1].coverage_percentage = 1000
    /\ test_results[1].test_count = 2 /\ test_results[1].passed_count = 2
    /\ test_results[1].memory_usage_mb = 0
    /\ test_results[1].quality_score = <<100, 1>>

BuildFailed(i) == executor[i].build \in {"failed", "exception"}

\* C20: a plan whose build failed gets a failed result whose errors name the
\* build failure and never starts its test run; every other plan still has
\* its build run and, when that succeeded, its test run, in both modes.
C20_BuildFailureIsolated ==
    /\ \A i \in Plans :
           BuildFailed(i) =>
               /\ task_pc[i] = "settled"
               /\ executor[i].test = NotRun
               /\ ~gathered[i].value.success
               /\ gathered[i].value.errors = <<Message("Build failed for", test_plans[i])>>
               /\ i <= Len(test_results) => test_results[i] = gathered[i].value
    /\ PlansReturned =>
           /\ Len(test_results) = Len(test_plans)
           /\ \A i \in Plans :
                  /\ executor[i].build \in {"ok", "failed", "exception"}
                  /\ executor[i].build = "ok" =>
                         /\ executor[i].test # NotRun
                         /\ test_results[i] =
                                CompletedResult(test_plans[i],
                                                run_xcode_test_plan(test_plans[i],
                                                                    executor[i].test),
                                                ElapsedSeconds(executor[i].test))

C20_Witness ==
    /\ pc = "done"
    /\ ~parallel_execution
    /\ executor[1].build = "failed"
    /\ ~test_results[1].success
    /\ test_results[1].errors = <<Message("Build failed for", "UnitTestPlan")>>
    /\ executor[1].test = NotRun
    /\ \A i \in Plans \ {1} :
           /\ executor[i].build = "ok"
           /\ executor[i].test.kind = "exit"
           /\ test_results[i].success

(***************************************************************************)
(* The states of one plan execution                                        *)
(***************************************************************************)
\* the state of a plan whose coroutine is at position t and whose
\* subprocesses did e
PlanStateOf(t, e) ==
    CASE t = "pending" -> "PENDING"
      [] t \in {"building", "hung"} -> "BUILDING"
      [] t = "testing" -> "TESTING"
      [] OTHER -> IF e.build # "ok" THEN "BUILD_FAILED"
                  ELSE IF e.test.kind = "timeout" THEN "TIMED_OUT"
                  ELSE "COMPLETED"

PlanState(i) == PlanStateOf(task_pc[i], executor[i])

TerminalStates == {"BUILD_FAILED", "TIMED_OUT", "COMPLETED"}

PlanTransitions ==
    {<<"PENDING", "BUILDING">>, <<"BUILDING", "BUILD_FAILED">>,
     <<"BUILDING", "TESTING">>, <<"TESTING", "TIMED_OUT">>,
     <<"TESTING", "COMPLETED">>}

\* the quality-gate step has started
GatesStarted == pc = "gates" \/ ReportBuilt

\* C21: a plan moves PENDING -> BUILDING -> BUILD_FAILED or TESTING ->
\* TIMED_OUT or COMPLETED and in no other way; it is in TESTING only after
\* its own build succeeded; the quality-gate step starts only when every
\* plan is in a terminal state, and none leaves it afterwards.
C21_PlanStateMachine ==
    /\ [](\A i \in Plans :
             /\ PlanState(i) \in {"TESTING", "TIMED_OUT", "COMPLETED"}
                    => executor[i].build = "ok"
             /\ GatesStarted => PlanState(i) \in TerminalStates)
    /\ [][\A i \in Plans :
             \/ PlanStateOf(task_pc'[i], executor'[i]) = PlanState(i)
             \/ <<PlanState(i), PlanStateOf(task_pc'[i], executor'[i])>> \in PlanTransitions]_vars

C21_Witness ==
    /\ pc = "done"
    /\ ReportBuilt
    /\ PlanState(1) = "BUILD_FAILED"
    /\ PlanState(2) = "TIMED_OUT"
    /\ PlanState(3) = "COMPLETED" /\ test_results[3].success
    /\ PlanState(4) = "COMPLETED" /\ ~test_results[4].success

\* the place of an entry in the order failed plans, low coverage, slow
\* plans, critical gate failures
RecommendationRank(text) ==
    CASE text = "Fix failing test plans" -> 1
      [] text = "Improve test coverage for" -> 2
      [] text = "Optimize performance for slow test plans" -> 3
      [] text = "Address critical quality gate failures before deployment" -> 4
      [] OTHER -> 0

\* C22: the recommendations are a function of the plan results and the gate
\* results, in the order failed plans, coverage below 80, slower than 300 s,
\* critical gate failures; and the gate entry is there whenever the loaded
\* gate results count at least one CRITICAL failure.
C22_Recommendations ==
    ReportBuilt =>
        LET recs == report.recommendations
        IN  /\ recs = generate_recommendations(report.test_plan_results,
                                               report.quality_gate_results)
            /\ \A i, j \in 1..Len(recs) :
                   i < j => RecommendationRank(recs[i].text) < RecommendationRank(recs[j].text)
            /\ GateCriticalFailures(quality_gate_results) > 0
                   => \E i \in 1..Len(recs) : RecommendationRank(recs[i].text) = 4

(***************************************************************************)
(* Missing metric fields                                                   *)
(***************************************************************************)
\* the results one validator call appended
Appended == SubSeq(validation_results', Len(validation_results) + 1, Len(validation_results'))

NamesInOrder(results, keys) ==
    /\ Len(results) = Len(keys)
    /\ \A i \in 1..Len(keys) : results[i].check_name = quality_thresholds[keys[i]].name

PerformanceKeys ==
    <<"max_test_execution_time", "max_individual_test_time", "memory_leak_threshold">>

SecurityKeys ==
    <<"critical_vulnerabilities", "high_vulnerabilities", "medium_vulnerabilities",
      "security_test_coverage">>

\* d with the field k, when d lacks it, set to the default
WithDefault(d, k, default) == IF k \in DOMAIN d THEN d ELSE (k :> default) @@ d

\* each validator gives a mapping that lacks a field the results of the same
\* mapping with the field set to its default (the thresholds in force are
\* those of the first state: no validator writes them)
DefaultsSubstituted ==
    /\ \A d \in PerformanceSamples :
           validate_performance_metrics(quality_thresholds, d) =
               validate_performance_metrics(quality_thresholds,
                   WithDefault(WithDefault(WithDefault(d, "execution_time_minutes", 0),
                                           "slow_tests", <<>>), "memory_leaks", 0))
    /\ \A d \in SecuritySamples :
           validate_security_compliance(quality_thresholds, d) =
               validate_security_compliance(quality_thresholds,
                   WithDefault(WithDefault(d, "test_coverage", 0), "vulnerabilities",
                               [critical |-> 0, high |-> 0, medium |-> 0]))
    /\ \A d \in CoverageSamples :
           validate_test_coverage(quality_thresholds, d) =
               validate_test_coverage(quality_thresholds,
                   WithDefault(WithDefault(d, "lineCoverage", 0), "targets", <<>>))

\* one validator call appended exactly the three performance results, or
\* exactly the four security results, or coverage results that begin with
\* the overall-coverage result
ValidatorAppended ==
    (e_pc = "validating" /\ e_pc' = "validating") =>
        \/ NamesInOrder(Appended, PerformanceKeys)
        \/ NamesInOrder(Appended, SecurityKeys)
        \/ /\ Len(Appended) \in 1..3
           /\ Appended[1].check_name = quality_thresholds.overall_test_coverage.name

\* C23: a validator call on any mapping, the empty one included, appends
\* exactly the three performance results, or exactly the four security
\* results, or coverage results that begin with the overall-coverage result;
\* and a mapping that lacks a field is validated as the same mapping with
\* the field set to 0 (to the empty list or mapping for a container).
C23_MissingFieldDefaults == DefaultsSubstituted /\ [][ValidatorAppended]_vars

\* all three validators have run on the empty mapping: eight results, each
\* with the actual value 0
C23_Witness ==
    /\ Len(validation_results) = 8
    /\ \A i \in Checks : validation_results[i].actual_value = <<0, 1>>

(***************************************************************************)
(* generate_coverage_report.py: parse_xcode_coverage                       *)
(*                                                                         *)
(* A file's lineCoverage is held in tenths of a percent as elsewhere; the  *)
(* percentages computed from line counts are exact fractions, in percent.  *)
(***************************************************************************)
\* what stands for the ZeroDivisionError a Python `/` raises
ZeroDivisionError == <<1, 0>>

\* Python's (num / den) * 100
Percentage(num, den) == IF den = 0 THEN ZeroDivisionError ELSE Div(100 * num, den)

\* lines 42-57
FileInfo(file_data, target_name) ==
    [name |-> Get(file_data, "name", "Unknown"),
     coverage_percentage |-> Get(file_data, "lineCoverage", 0),
     covered_lines |-> Get(file_data, "coveredLines", 0),
     executable_lines |-> Get(file_data, "executableLines", 0),
     target |-> target_name]

TargetName(target) == Get(target, "name", "Unknown")

TargetFiles(target) ==
    LET files == Get(target, "files", <<>>)
    IN  [i \in 1..Len(files) |-> FileInfo(files[i], TargetName(target))]

CoveredLines(files) == SeqSum([i \in 1..Len(files) |-> files[i].covered_lines])
ExecutableLines(files) == SeqSum([i \in 1..Len(files) |-> files[i].executable_lines])

\* lines 72-83 with the test of line 73 left out
TargetCoverageUnguarded(target) ==
    LET files == TargetFiles(target)
    IN  [coverage_percentage |-> Percentage(CoveredLines(files), ExecutableLines(files)),
         covered_lines |-> CoveredLines(files),
         executable_lines |-> ExecutableLines(files),
         file_count |-> Len(files),
         files |-> files]

\* lines 72-83
TargetCoverage(target) ==
    LET files == TargetFiles(target)
    IN  [coverage_percentage |->
             IF ExecutableLines(files) > 0
             THEN Percentage(CoveredLines(files), ExecutableLines(files))
             ELSE <<0, 1>>,
         covered_lines |-> CoveredLines(files),
         executable_lines |-> ExecutableLines(files),
         file_count |-> Len(files),
         files |-> files]

RECURSIVE InsertByCoverage(_, _)
\* f put into the sorted list after the entries that are not above it
InsertByCoverage(sorted, f) ==
    IF sorted = <<>> THEN <<f>>
    ELSE IF Head(sorted).coverage_percentage <= f.coverage_percentage
         THEN <<Head(sorted)>> \o InsertByCoverage(Tail(sorted), f)
         ELSE <<f>> \o sorted

RECURSIVE SortByCoverage(_)
\* line 99: list.sort on coverage_percentage, which is stable
SortByCoverage(files) ==
    IF files = <<>> THEN <<>>
    ELSE InsertByCoverage(SortByCoverage(SubSeq(files, 1, Len(files) - 1)),
                          files[Len(files)])

\* the index of the last entry of a non-empty list that gives the key k
LastWith(keys, k) == CHOOSE i \in 1..Len(keys) :
    keys[i] = k /\ \A j \in (i + 1)..Len(keys) : keys[j] # k

\* lines 12-27: the value returned when there is no 'targets' key
EmptyParsed ==
    [overall_coverage |-> <<0, 1>>,
     file_coverage |-> EmptyDict,
     target_coverage |-> EmptyDict,
     low_coverage_files |-> <<>>,
     uncovered_lines |-> <<>>,
     summary |-> [total_files |-> 0, covered_lines |-> 0, executable_lines |-> 0,
                  coverage_percentage |-> <<0, 1>>]]

parse_xcode_coverage(coverage_data) ==
    IF "targets" \notin DOMAIN coverage_data THEN EmptyParsed
    ELSE
    LET targets == coverage_data.targets
        all_files == Flatten([i \in 1..Len(targets) |-> TargetFiles(targets[i])])
        target_names == [i \in 1..Len(targets) |-> TargetName(targets[i])]
        file_names == [i \in 1..Len(all_files) |-> all_files[i].name]
        total_covered == CoveredLines(all_files)
        total_executable == ExecutableLines(all_files)
        overall_coverage ==
            IF total_executable > 0 THEN Percentage(total_covered, total_executable)
            ELSE <<0, 1>>
    IN  [overall_coverage |-> overall_coverage,
         file_coverage |->
             [n \in {file_names[i] : i \in 1..Len(file_names)} |->
                 all_files[LastWith(file_names, n)].coverage_percentage],
         target_coverage |->
             [n \in {target_names[i] : i \in 1..Len(target_names)} |->
                 TargetCoverage(targets[LastWith(target_names, n)])],
         low_coverage_files |->
             SortByCoverage(SelectSeq(all_files,
                 LAMBDA f : f.coverage_percentage < 800 /\ f.executable_lines > 0)),
         uncovered_lines |-> <<>>,
         summary |-> [total_files |-> Len(all_files),
                      covered_lines |-> total_covered,
                      executable_lines |-> total_executable,
                      coverage_percentage |-> overall_coverage]]

(***************************************************************************)
(* validate_test_quality.py: TestQualityValidator                          *)
(*                                                                         *)
(* Coverage percentages are in tenths of a percent, durations in minutes   *)
(* and seconds; the flaky-test percentage, the performance success rate    *)
(* and the quality score are exact fractions, in percent.  An entry of the *)
(* passed / failed / warnings lists is the text of its message with the    *)
(* names and the number the f-string puts into it.                         *)
(***************************************************************************)
\* lines 18-28, the numeric gates
_quality_gates ==
    [unit_test_coverage |-> 900,
     integration_test_coverage |-> 850,
     security_test_coverage |-> 950,
     performance_test_success_rate |-> 100,
     max_test_duration_minutes |-> 45,
     max_flaky_test_percentage |-> 2]

\* main, lines 458-462
StrictQualityGates(gates) ==
    [gates EXCEPT !.unit_test_coverage = 950,
                  !.integration_test_coverage = 900,
                  !.max_test_duration_minutes = 30,
                  !.max_flaky_test_percentage = 1]

Check(text, subject, value) == [text |-> text, subject |-> subject, value |-> value]

AddPassed(results, entry) == [results EXCEPT !.passed = Append(@, entry)]
AddFailed(results, entry) == [results EXCEPT !.failed = Append(@, entry)]
AddWarnings(results, entries) == [results EXCEPT !.warnings = @ \o entries]

\* what a validator leaves: the lists and the value it returns
Validated(results, valid) == [results |-> results, valid |-> valid]

\* a file that exists and that json.load cannot read
Malformed == [exists |-> TRUE]

\* lines 58-64, with the substring test on the names the model draws from
IsCriticalFile(file_name) ==
    file_name \in {"GolfCourseService.swift", "Sources/SecurityService.swift"}

\* validate_test_coverage, lines 36-90; file_coverage is the JSON object as
\* the list of its <<name, coverage>> members
tq_validate_test_coverage(gates, results, file) ==
    IF ~file.exists
    THEN Validated(AddFailed(results, Check("Coverage file not found", <<>>, <<0, 1>>)), FALSE)
    ELSE IF "content" \notin DOMAIN file
    THEN Validated(AddFailed(results, Check("Error reading coverage data", <<>>, <<0, 1>>)),
                   FALSE)
    ELSE
    LET overall_coverage == Get(file.content, "coverage_percentage", 0)
        file_coverage == Get(file.content, "file_coverage", <<>>)
        meets == overall_coverage >= gates.unit_test_coverage
        low_coverage_files ==
            SelectSeq(file_coverage, LAMBDA fc : IsCriticalFile(fc[1]) /\ fc[2] < 950)
        checked ==
            IF meets
            THEN AddPassed(results, Check("Unit test coverage", <<>>, Div(overall_coverage, 10)))
            ELSE AddFailed(results, Check("Unit test coverage below threshold", <<>>,
                                          Div(overall_coverage, 10)))
    IN  Validated(AddWarnings(checked,
                      [i \in 1..Len(low_coverage_files) |->
                          Check("Low coverage in critical file",
                                <<low_coverage_files[i][1]>>,
                                Div(low_coverage_files[i][2], 10))]),
                  meets)

\* 'performance' in name.lower(), on the names the model draws from
IsPerformanceTest(name) == name \in {"testLoadPerformance", "testPerformanceOfSearch"}

Count(s, Test(_)) == Len(SelectSeq(s, Test))

\* line 142
FlakyPercentage(tests) ==
    IF tests # <<>>
    THEN Percentage(Count(tests, LAMBDA t : Get(t, "is_flaky", FALSE)),
                    Len(tests))
    ELSE <<0, 1>>

\* validate_test_performance, lines 92-171
validate_test_performance(gates, results, file) ==
    IF ~file.exists
    THEN Validated(AddFailed(results, Check("Performance file not found", <<>>, <<0, 1>>)),
                   FALSE)
    ELSE IF "content" \notin DOMAIN file
    THEN Validated(AddFailed(results, Check("Error reading performance data", <<>>, <<0, 1>>)),
                   FALSE)
    ELSE
    LET total_duration == Get(file.content, "total_test_duration_minutes", 0)
        test_results_ == Get(file.content, "test_results", <<>>)
        in_time == total_duration <= gates.max_test_duration_minutes
        timed ==
            IF in_time
            THEN AddPassed(results, Check("Test duration", <<>>, <<total_duration, 1>>))
            ELSE AddFailed(results, Check("Test duration exceeds limit", <<>>,
                                          <<total_duration, 1>>))
        slow_tests == Count(test_results_, LAMBDA t : Get(t, "duration_seconds", 0) > 30)
        warned ==
            IF slow_tests > 0
            THEN AddWarnings(timed, <<Check("slow tests detected", <<>>, <<slow_tests, 1>>)>>)
            ELSE timed
        flaky_percentage == FlakyPercentage(test_results_)
        few_flaky == RatLeq(flaky_percentage, <<gates.max_flaky_test_percentage, 1>>)
        flaky_checked ==
            IF few_flaky
            THEN AddPassed(warned, Check("Flaky test rate", <<>>, flaky_percentage))
            ELSE AddFailed(warned, Check("Flaky test rate exceeds limit", <<>>,
                                         flaky_percentage))
        perf_tests == SelectSeq(test_results_, LAMBDA t : IsPerformanceTest(Get(t, "name", "")))
        perf_success_rate ==
            Percentage(Count(perf_tests, LAMBDA t : Get(t, "status", "None") = "passed"),
                       Len(perf_tests))
        perf_checked ==
            IF perf_tests = <<>> THEN flaky_checked
            ELSE IF RatLeq(<<gates.performance_test_success_rate, 1>>, perf_success_rate)
            THEN AddPassed(flaky_checked,
                           Check("Performance test success rate", <<>>, perf_success_rate))
            ELSE AddFailed(flaky_checked,
                           Check("Performance test success rate below requirement", <<>>,
                                 perf_success_rate))
    IN  Validated(perf_checked, in_time /\ few_flaky)

\* lines 220-227
required_security_tests ==
    <<"sql_injection_protection", "xss_protection", "authentication_bypass_prevention",
      "input_validation", "encryption_at_rest", "gdpr_compliance">>

Elements(s) == {s[i] : i \in 1..Len(s)}

\* validate_security_compliance, lines 173-253
tq_validate_security_compliance(gates, results, file) ==
    IF ~file.exists
    THEN Validated(AddFailed(results, Check("Security file not found", <<>>, <<0, 1>>)), FALSE)
    ELSE IF "content" \notin DOMAIN file
    THEN Validated(AddFailed(results, Check("Error reading security data", <<>>, <<0, 1>>)),
                   FALSE)
    ELSE
    LET vulnerability_scan == Get(file.content, "vulnerability_scan", EmptyDict)
        security_tests == Get(file.content, "security_tests", EmptyDict)
        critical_vulnerabilities == Get(vulnerability_scan, "critical", 0)
        high_vulnerabilities == Get(vulnerability_scan, "high", 0)
        critical_checked ==
            IF critical_vulnerabilities = 0
            THEN AddPassed(results, Check("No critical vulnerabilities found", <<>>, <<0, 1>>))
            ELSE AddFailed(results, Check("critical vulnerabilities found", <<>>,
                                          <<critical_vulnerabilities, 1>>))
        high_checked ==
            IF high_vulnerabilities = 0
            THEN AddPassed(critical_checked,
                           Check("No high-severity vulnerabilities found", <<>>, <<0, 1>>))
            ELSE IF high_vulnerabilities <= 2
            THEN AddWarnings(critical_checked,
                             <<Check("high-severity vulnerabilities found", <<>>,
                                     <<high_vulnerabilities, 1>>)>>)
            ELSE AddFailed(critical_checked,
                           Check("Too many high-severity vulnerabilities", <<>>,
                                 <<high_vulnerabilities, 1>>))
        security_test_coverage == Get(security_tests, "coverage_percentage", 0)
        covered == security_test_coverage >= gates.security_test_coverage
        coverage_checked ==
            IF covered
            THEN AddPassed(high_checked,
                           Check("Security test coverage", <<>>, Div(security_test_coverage, 10)))
            ELSE AddFailed(high_checked,
                           Check("Security test coverage below threshold", <<>>,
                                 Div(security_test_coverage, 10)))
        missing_security_tests ==
            SelectSeq(required_security_tests,
                      LAMBDA c : c \notin Elements(Get(security_tests, "test_categories", <<>>)))
        categories_checked ==
            IF missing_security_tests = <<>>
            THEN AddPassed(coverage_checked,
                           Check("All required security tests present", <<>>, <<0, 1>>))
            ELSE AddFailed(coverage_checked,
                           Check("Missing security tests", missing_security_tests,
                                 <<Len(missing_security_tests), 1>>))
    IN  Validated(categories_checked,
                  /\ critical_vulnerabilities = 0
                  /\ high_vulnerabilities <= 2
                  /\ covered
                  /\ missing_security_tests = <<>>)

\* lines 260-266
required_directories ==
    <<"Unit/Services", "Integration/APIGateway", "Performance/Load",
      "Security/Authentication", "UI/Golf">>

\* validate_test_structure, lines 255-293; the directory is the set of the
\* required paths that exist in it and the number of *Tests.swift files
validate_test_structure(results, test_directory) ==
    LET missing_directories ==
            SelectSeq(required_directories, LAMBDA d : d \notin test_directory.paths)
        structure_checked ==
            IF missing_directories = <<>>
            THEN AddPassed(results,
                           Check("All required test directories present", <<>>, <<0, 1>>))
            ELSE AddFailed(results,
                           Check("Missing test directories", missing_directories,
                                 <<Len(missing_directories), 1>>))
        test_file_count == test_directory.test_file_count
    IN  Validated(IF test_file_count >= 20
                  THEN AddPassed(structure_checked,
                                 Check("Adequate test file count", <<>>, <<test_file_count, 1>>))
                  ELSE AddWarnings(structure_checked,
                                   <<Check("Low test file count", <<>>,
                                           <<test_file_count, 1>>)>>),
                  missing_directories = <<>>)

\* lines 300-305
required_test_plans ==
    <<"UnitTestPlan.xctestplan", "IntegrationTestPlan.xctestplan",
      "PerformanceTestPlan.xctestplan", "SecurityTestPlan.xctestplan">>

\* what the loop of lines 308-326 warns about one plan file that exists
PlanWarnings(plan, file) ==
    IF "content" \notin DOMAIN file
    THEN <<Check("Test plan validation error", <<plan>>, <<0, 1>>)>>
    ELSE IF "testTargets" \in DOMAIN file.content THEN <<>>
    ELSE <<Check("Test plan missing testTargets", <<plan>>, <<0, 1>>)>>

\* validate_test_plans, lines 295-335; the directory gives each required
\* plan its file
validate_test_plans(results, test_plans_directory) ==
    LET missing_plans ==
            SelectSeq(required_test_plans, LAMBDA p : ~test_plans_directory[p].exists)
        warned ==
            AddWarnings(results,
                Flatten([i \in 1..Len(required_test_plans) |->
                    LET plan == required_test_plans[i]
                    IN  IF test_plans_directory[plan].exists
                        THEN PlanWarnings(plan, test_plans_directory[plan])
                        ELSE <<>>]))
    IN  Validated(IF missing_plans = <<>>
                  THEN AddPassed(warned, Check("All required test plans present", <<>>, <<0, 1>>))
                  ELSE AddFailed(warned, Check("Missing test plans", missing_plans,
                                               <<Len(missing_plans), 1>>)),
                  missing_plans = <<>>)

\* line 353
QualityScore(passed_count, total_checks) ==
    IF total_checks > 0 THEN Percentage(passed_count, total_checks) ELSE <<0, 1>>

\* generate_quality_report, lines 337-395 (the timestamp left out)
tq_generate_quality_report(results) ==
    LET passed_count == Len(results.passed)
        failed_count == Len(results.failed)
        warning_count == Len(results.warnings)
        total_checks == passed_count + failed_count + warning_count
    IN  [overall_status |-> IF failed_count = 0 THEN "PASSED" ELSE "FAILED",
         quality_score |-> QualityScore(passed_count, total_checks),
         total_checks |-> total_checks,
         passed |-> passed_count,
         failed |-> failed_count,
         warnings |-> warning_count,
         details |-> results]

(***************************************************************************)
(* The scripts on any input: generate_coverage_report.py parses one xccov  *)
(* file, validate_test_quality.py validates the files it is given, the     *)
(* enforcer scores a list of results, the runner scores one test run.  One *)
(* script runs in a behaviour.                                             *)
(***************************************************************************)
MaxPerfTests == 2

\* the files of an xccov target: line counts of 0, 5 and 9 of 10
XccovFiles ==
    {EmptyDict,
     [name |-> "Empty.swift", lineCoverage |-> 0, coveredLines |-> 0, executableLines |-> 0],
     [name |-> "ContentView.swift", lineCoverage |-> 500, coveredLines |-> 5,
      executableLines |-> 10],
     [name |-> "Empty.swift", lineCoverage |-> 900, coveredLines |-> 9,
      executableLines |-> 10]}

XccovTargets ==
    {[name |-> "GolfFinderSwiftUI.app", files |-> fs] : fs \in SeqsUpTo(XccovFiles, MaxFiles)}
    \cup {[files |-> fs] : fs \in SeqsUpTo(XccovFiles, 1)}
    \cup {[name |-> "Empty.framework"]}

XccovSamples ==
    {EmptyDict, [lineCoverage |-> 855], [targets |-> <<>>]}
    \cup {[targets |-> <<t>>] : t \in XccovTargets}
    \cup {[targets |-> <<t, u>>] :
            t \in XccovTargets,
            u \in {[name |-> "Empty.framework"],
                   [name |-> "GolfFinderSwiftUI.app",
                    files |-> <<[name |-> "B.swift", lineCoverage |-> 1000,
                                 coveredLines |-> 10, executableLines |-> 10]>>]}}

NotGiven == [given |-> FALSE]
Given(value) == [given |-> TRUE, value |-> value]

CoverageFiles ==
    {NoFile, Malformed, File(EmptyDict),
     File([coverage_percentage |-> 900]),
     File([coverage_percentage |-> 925,
           file_coverage |-> <<<<"GolfCourseService.swift", 940>>,
                               <<"ContentView.swift", 100>>,
                               <<"Sources/SecurityService.swift", 950>>>>])}

PerfTestSamples ==
    {EmptyDict,
     [name |-> "testBooking", status |-> "passed", duration_seconds |-> 31],
     [name |-> "testSearch", status |-> "passed", is_flaky |-> TRUE],
     [name |-> "testLoadPerformance", status |-> "failed"],
     [name |-> "testPerformanceOfSearch", status |-> "passed", is_flaky |-> FALSE]}

PerformanceFiles ==
    {NoFile, Malformed, File(EmptyDict),
     File([total_test_duration_minutes |-> 40]),
     File([total_test_duration_minutes |-> 46, test_results |-> <<>>])}
    \cup {File([total_test_duration_minutes |-> 30, test_results |-> ts]) :
            ts \in SeqsUpTo(PerfTestSamples, MaxPerfTests)}

SecurityFiles ==
    {NoFile, File(EmptyDict),
     File([vulnerability_scan |-> [critical |-> 0, high |-> 0, medium |-> 1],
           security_tests |-> [coverage_percentage |-> 965,
                               test_categories |-> required_security_tests]]),
     File([vulnerability_scan |-> [high |-> 2],
           security_tests |-> [coverage_percentage |-> 950,
                               test_categories |-> required_security_tests]]),
     File([vulnerability_scan |-> [critical |-> 1, high |-> 3],
           security_tests |-> [coverage_percentage |-> 965,
                               test_categories |-> <<"xss_protection">>]])}

TestDirectories ==
    {[paths |-> {}, test_file_count |-> 0],
     [paths |-> Elements(required_directories), test_file_count |-> 20]}

TestPlanDirectories ==
    {[p \in Elements(required_test_plans) |-> NoFile],
     [p \in Elements(required_test_plans) |->
         CASE p = "UnitTestPlan.xctestplan" -> File(EmptyDict)
           [] p = "IntegrationTestPlan.xctestplan" -> Malformed
           [] OTHER -> File([testTargets |-> <<>>])]}

\* the lists of results the enforcer scores here: none, or one of any
\* severity
ScoredSamples ==
    SeqsUpTo({QualityResult("check", passed, <<0, 1>>, 0, severity) :
                 passed \in BOOLEAN, severity \in Severities}, 1)

InitTools ==
    /\ RunnerIdle
    /\ EnforcerIdle
    /\ ToolsIdle

NoScriptRan == pc = "idle" /\ e_pc = "idle" /\ t_pc = "idle"

\* generate_coverage_report.py main, line 463
ParseCoverage(coverage_data) ==
    /\ NoScriptRan
    /\ parsed' = parse_xcode_coverage(coverage_data)
    /\ t_pc' = "parsed"
    /\ UNCHANGED <<tq_validation_results, tq_success, tq_report, quality_gates, tq_exit>>

\* validate_test_quality.py main, lines 455-466, and the first line of
\* run_validation
TestQualityStart(strict) ==
    /\ NoScriptRan
    /\ quality_gates' = IF strict THEN StrictQualityGates(_quality_gates) ELSE _quality_gates
    /\ tq_success' = TRUE
    /\ t_pc' = "coverage"
    /\ UNCHANGED <<parsed, tq_validation_results, tq_report, tq_exit>>

\* one `if args.<file>: valid = self.validate_...; success = success and valid`
\* of run_validation (lines 407-430)
ValidationStep(at, arg, validated, then) ==
    /\ t_pc = at
    /\ tq_validation_results' = IF arg.given THEN validated.results ELSE tq_validation_results
    /\ tq_success' = IF arg.given THEN tq_success /\ validated.valid ELSE tq_success
    /\ t_pc' = then
    /\ UNCHANGED <<parsed, tq_report, quality_gates, tq_exit>>

\* lines 407-410
ValidateCoverage(arg) ==
    ValidationStep("coverage", arg,
        IF arg.given
        THEN tq_validate_test_coverage(quality_gates, tq_validation_results, arg.value)
        ELSE Validated(tq_validation_results, TRUE),
        "performance")

\* lines 412-415
ValidatePerformance(arg) ==
    ValidationStep("performance", arg,
        IF arg.given
        THEN validate_test_performance(quality_gates, tq_validation_results, arg.value)
        ELSE Validated(tq_validation_results, TRUE),
        "security")

\* lines 417-420
ValidateSecurity(arg) ==
    ValidationStep("security", arg,
        IF arg.given
        THEN tq_validate_security_compliance(quality_gates, tq_validation_results, arg.value)
        ELSE Validated(tq_validation_results, TRUE),
        "structure")

\* lines 422-425
ValidateStructure(arg) ==
    ValidationStep("structure", arg,
        IF arg.given
        THEN validate_test_structure(tq_validation_results, arg.value)
        ELSE Validated(tq_validation_results, TRUE),
        "plans")

\* lines 427-430
ValidatePlans(arg) ==
    ValidationStep("plans", arg,
        IF arg.given
        THEN validate_test_plans(tq_validation_results, arg.value)
        ELSE Validated(tq_validation_results, TRUE),
        "report")

\* lines 432-441 and main, lines 465-468; save is "none" without
\* --output-file, "saved", or "exception" when the file cannot be written
RunValidationEnds(save) ==
    /\ t_pc = "report"
    /\ tq_report' = tq_generate_quality_report(tq_validation_results)
    /\ t_pc' = IF save = "exception" THEN "raised" ELSE "returned"
    /\ tq_exit' = IF save = "exception" THEN 1 ELSE ExitCode(tq_success)
    /\ UNCHANGED <<parsed, tq_validation_results, tq_success, quality_gates>>

\* the enforcer's report and verdict on a list of results (lines 674-677
\* and main, lines 714-728)
EnforcerScores(results) ==
    /\ NoScriptRan
    /\ validation_results' = results
    /\ quality_report' = generate_quality_report(results)
    /\ e_exit' = ExitCode(FinalSuccess(TRUE, results))
    /\ e_pc' = "exited"
    /\ UNCHANGED <<config, quality_thresholds, e_args, e_success>>

\* execute_test_plan, lines 198-220, on one test run that exited
RunnerScores(outcome) ==
    /\ NoScriptRan
    /\ test_results' = <<CompletedResult(test_plans[1],
                                         run_xcode_test_plan(test_plans[1], outcome),
                                         ElapsedSeconds(outcome))>>
    /\ pc' = "scored"
    /\ UNCHANGED <<parallel_execution, task_pc, executor, gathered, gate_file,
                   quality_gate_results, report, exit_code, out_of_order,
                   main_exception>>

NextTools ==
    \/ \E d \in XccovSamples : ParseCoverage(d) /\ UNCHANGED <<rvars, evars>>
    \/ \E strict \in BOOLEAN : TestQualityStart(strict) /\ UNCHANGED <<rvars, evars>>
    \/ \E arg \in {NotGiven} \cup {Given(f) : f \in CoverageFiles} :
           ValidateCoverage(arg) /\ UNCHANGED <<rvars, evars>>
    \/ \E arg \in {NotGiven} \cup {Given(f) : f \in PerformanceFiles} :
           ValidatePerformance(arg) /\ UNCHANGED <<rvars, evars>>
    \/ \E arg \in {NotGiven} \cup {Given(f) : f \in SecurityFiles} :
           ValidateSecurity(arg) /\ UNCHANGED <<rvars, evars>>
    \/ \E arg \in {NotGiven} \cup {Given(d) : d \in TestDirectories} :
           ValidateStructure(arg) /\ UNCHANGED <<rvars, evars>>
    \/ \E arg \in {NotGiven} \cup {Given(d) : d \in TestPlanDirectories} :
           ValidatePlans(arg) /\ UNCHANGED <<rvars, evars>>
    \/ \E save \in {"none", "saved", "exception"} :
           RunValidationEnds(save) /\ UNCHANGED <<rvars, evars>>
    \/ \E results \in ScoredSamples : EnforcerScores(results) /\ UNCHANGED <<rvars, tvars>>
    \/ \E outcome \in {o \in TestOutcomes : o.kind = "exit"} :
           RunnerScores(outcome) /\ UNCHANGED <<evars, tvars>>

SpecTools == InitTools /\ [][NextTools]_vars

(***************************************************************************)
(* Zero denominators                                                       *)
(***************************************************************************)
\* a fraction that is a number: no division by zero went into it
IsNumber(q) == q[2] > 0

TargetsParsed == DOMAIN parsed.target_coverage

AllEntries(results) == results.passed \o results.failed \o results.warnings

\* the entries validate_test_performance adds, from the lists as they are,
\* for a performance file without test results
FlakyRateOfNoTests(file) ==
    LET passed == validate_test_performance(quality_gates, tq_validation_results,
                                            file).results.passed
    IN  \E i \in 1..Len(passed) :
            passed[i].text = "Flaky test rate" /\ passed[i].value = <<0, 1>>

\* C24: no derived percentage is the outcome of a division by zero, and it
\* is 0 where its denominator is 0: the target and overall coverage of
\* parse_xcode_coverage with no executable lines, the flaky-test percentage
\* of a performance file without test results, the quality score of
\* validate_test_quality with no checks, the enforcer's score of no results;
\* and a test run whose output counts no test is scored with a total of 1
\* and 0 passed and 0 failed.
C24_ZeroDenominators ==
    /\ t_pc = "parsed" =>
           /\ IsNumber(parsed.overall_coverage)
           /\ parsed.summary.coverage_percentage = parsed.overall_coverage
           /\ parsed.summary.executable_lines = 0 => parsed.overall_coverage = <<0, 1>>
           /\ parsed.summary.executable_lines > 0 =>
                  parsed.overall_coverage =
                      Div(100 * parsed.summary.covered_lines, parsed.summary.executable_lines)
           /\ \A n \in TargetsParsed :
                  LET target == parsed.target_coverage[n]
                  IN  /\ IsNumber(target.coverage_percentage)
                      /\ target.executable_lines = 0 => target.coverage_percentage = <<0, 1>>
                      /\ target.executable_lines > 0 =>
                             target.coverage_percentage =
                                 Div(100 * target.covered_lines, target.executable_lines)
    /\ \A i \in 1..Len(AllEntries(tq_validation_results)) :
           IsNumber(AllEntries(tq_validation_results)[i].value)
    /\ t_pc = "performance" =>
           \A file \in PerformanceFiles :
               ("content" \in DOMAIN file /\ Get(file.content, "test_results", <<>>) = <<>>)
                   => FlakyRateOfNoTests(file)
    /\ t_pc \in {"returned", "raised"} =>
           /\ IsNumber(tq_report.quality_score)
           /\ tq_report.total_checks = 0 => tq_report.quality_score = <<0, 1>>
           /\ tq_report.total_checks > 0 =>
                  tq_report.quality_score = Div(100 * tq_report.passed, tq_report.total_checks)
    /\ e_pc = "exited" =>
           /\ IsNumber(quality_report.execution_summary.quality_score)
           /\ validation_results = <<>> =>
                  quality_report.execution_summary.quality_score = <<0, 1>>
    /\ pc = "scored" =>
           LET result == test_results[1]
               counted == result.passed_count + result.failed_count + result.skipped_count
           IN  /\ IsNumber(result.quality_score)
               /\ result.test_count = IF counted = 0 THEN 1 ELSE counted

\* a target whose files have no executable line was parsed:
\* its coverage and the overall coverage are 0
C24_Witness ==
    /\ t_pc = "parsed"
    /\ parsed.summary.total_files > 0
    /\ parsed.summary.executable_lines = 0
    /\ parsed.overall_coverage = <<0, 1>>
    /\ \E n \in TargetsParsed :
           /\ parsed.target_coverage[n].file_count > 0
           /\ parsed.target_coverage[n].executable_lines = 0
           /\ parsed.target_coverage[n].coverage_percentage = <<0, 1>>

(***************************************************************************)
(* run_validation's return value and the report's status                   *)
(***************************************************************************)
\* C29: when run_validation has returned, the value it returned is true
\* exactly when the report's overall_status is PASSED, that is when the
\* failed list is empty.
C29_ReturnMatchesStatus ==
    t_pc = "returned" =>
        /\ tq_report.overall_status = "PASSED" <=> tq_validation_results.failed = <<>>
        /\ tq_success <=> tq_report.overall_status = "PASSED"

(***************************************************************************)
(* The weight of a CRITICAL result against an INFO result                  *)
(***************************************************************************)
\* the weight of a result when a CRITICAL result counts `factor` times an
\* INFO result, passed or not
WeightWithFactor(result, factor) ==
    IF result.severity = "CRITICAL" THEN factor * info_weight
    ELSE IF result.severity = "WARNING" THEN warning_weight
    ELSE info_weight

\* the weighted mean of 100 for a passed and 0 for a failed result
MeanWithFactor(results, factor) ==
    Div(SeqSum([i \in 1..Len(results) |->
                   IF results[i].passed THEN 100 * WeightWithFactor(results[i], factor)
                   ELSE 0]),
        SeqSum([i \in 1..Len(results) |-> WeightWithFactor(results[i], factor)]))

ReportedScore == quality_report.execution_summary.quality_score

\* C25 as stated: the score reported is the weighted mean in which a
\* CRITICAL result, failed or passed, weighs three times an INFO result.
C25_CriticalWeighsThreeInfo ==
    Reported => ReportedScore = MeanWithFactor(validation_results, 3)

\* C25: the score reported is the weighted mean in which a CRITICAL result,
\* failed or passed, weighs six times an INFO result (3.0 against 0.5), which
\* is three times a WARNING result.
C25_CriticalWeighsSixInfo ==
    Reported =>
        /\ ReportedScore = MeanWithFactor(validation_results, 6)
        /\ critical_weight = 3 * warning_weight

\* a failing CRITICAL result scored with a passing CRITICAL and a passing
\* INFO result: 100 * (3.0 + 0.5) / (3.0 + 3.0 + 0.5)
C25_Witness ==
    /\ Reported
    /\ Len(validation_results) = 3
    /\ \E i, j, k \in Checks :
           /\ validation_results[i].severity = "CRITICAL" /\ ~validation_results[i].passed
           /\ validation_results[j].severity = "CRITICAL" /\ validation_results[j].passed
           /\ validation_results[k].severity = "INFO" /\ validation_results[k].passed
    /\ ReportedScore = <<700, 13>>

(***************************************************************************)
(* The counts of a plan result                                             *)
(***************************************************************************)
\* C26: every plan result in test_results has passed_count + failed_count +
\* skipped_count <= test_count, and the report built from them has
\* total_passed + total_failed <= total_tests.
C26_CountsConsistent ==
    /\ \A i \in 1..Len(test_results) :
           test_results[i].passed_count + test_results[i].failed_count
               + test_results[i].skipped_count <= test_results[i].test_count
    /\ ReportBuilt => report.total_passed + report.total_failed <= report.total_tests

(***************************************************************************)
(* Sequential and concurrent mode                                          *)
(***************************************************************************)
\* the list the plans' executor outcomes determine, whatever the mode and
\* the interleaving: entry i is what execute_test_plan makes of outcome i
ResultsOfOutcomes == [i \in Plans |-> OwnResult(i)]

\* the fields of the report that are computed from the plan results alone
Outcome(r) ==
    <<r.overall_success, r.total_tests, r.total_passed, r.total_failed,
      r.overall_coverage, r.overall_quality_score>>

\* C27: once the plans have returned, in sequential as in concurrent mode
\* and whatever the interleaving, test_results is the list the per-plan
\* executor outcomes determine (same plans, order, success flags, counts,
\* errors), and so are the report's overall_success, totals, coverage and
\* quality score.
C27_ModesEquivalent ==
    /\ PlansReturned => test_results = ResultsOfOutcomes
    /\ ReportBuilt =>
           /\ report.test_plan_results = ResultsOfOutcomes
           /\ Outcome(report) = Outcome(generate_validation_report(ResultsOfOutcomes, EmptyDict))

\* a concurrent run whose plans returned out of the request order, with a
\* failed build, a timed-out plan and a plan that succeeded
C27_Witness ==
    /\ parallel_execution
    /\ out_of_order
    /\ ReportBuilt
    /\ \E i, j, k \in Plans :
           /\ executor[i].build = "failed"
           /\ executor[j].build = "ok" /\ executor[j].test.kind = "timeout"
           /\ test_results[k].success

(***************************************************************************)
(* The enforcer's verdicts                                                 *)
(***************************************************************************)
RecommendsDeployment ==
    \E i \in 1..Len(quality_report.recommendations) :
        quality_report.recommendations[i] = ReadyForDeployment

\* C28: when the enforcer has exited after run_comprehensive_validation,
\* its exit status is 0 exactly when the report's overall_passed is true, and
\* the report recommends 'ready for deployment' only when the exit status
\* is 0.
C28_VerdictsAgree ==
    (Reported /\ e_args.mode = "comprehensive") =>
        /\ e_exit = 0 <=> quality_report.execution_summary.overall_passed
        /\ RecommendsDeployment => e_exit = 0

(***************************************************************************)
(* The gate results of a run whose plans failed                            *)
(***************************************************************************)
\* C30: when the report is built from gate results the enforcer wrote and a
\* plan of the run did not succeed, the gate results hold at least one check
\* and a failing verdict.
C30_GateStepReflectsPlans ==
    (ReportBuilt /\ "quality_gates" \in DOMAIN quality_gate_results
        /\ ~AllSucceeded(test_results)) =>
        /\ quality_gate_results.quality_gates.total_checks >= 1
        /\ ~quality_gate_results.execution_summary.overall_passed

====
